---- MODULE Spec2Model ----
(***************************************************************************)
(* Model of the analytics core of facet-analyzer-v2:                       *)
(*   analysis/authority_analyzer.py  (AuthorityAnalyzer)                   *)
(*   analysis/scoring.py             (ScoringWeights, FacetScorer)         *)
(*   analysis/http_verifier.py       (HTTPVerifier)                        *)
(*   data/data_config.py             (validate_regex_pattern,              *)
(*                                    FacetDetector)                       *)
(*   analysis/facet_analyzer.py      (FacetAnalyzer)                       *)
(*   data/loaders.py                 (DataLoader.merge_crawl_with_traffic) *)
(*   auth/authenticator.py           (EmailAuthenticator)                  *)
(*   ai/api_clients.py               (DualAIClient)                        *)
(* URLs are small integers, except for the FacetDetector, which reads      *)
(* their text.  Tables (pandas DataFrames) are sequences of rows.  Python  *)
(* lists are sequences, dicts are functions on their keys.                 *)
(***************************************************************************)
EXTENDS Integers, Sequences, FiniteSets, TLC

VARIABLES
    \* ---- AuthorityAnalyzer ----
    crawl,            \* self.crawl: rows [url, status, links]
    adobe_urls,       \* self.adobe_urls: rows [url_full, visits_seo]
    has_status_col,   \* whether the crawl carries a status-code column
    merged,           \* self.merged: rows [url, status, links, visits_seo]
    no_dist_call,     \* last analyze_no_distribution call and what it returned
    dilution_call,    \* last analyze_dilution call and what it returned
    analysis,         \* last get_full_analysis result
    \* ---- ScoringWeights / FacetScorer ----
    weights,          \* the ScoringWeights the scorer holds, or the error raised
    breakdown,        \* the ScoreBreakdown returned last by score_facet
    earlier_total,    \* total_score of the ScoreBreakdown returned before it
    \* ---- FacetAnalyzer ----
    facet,            \* what the loaded tables hold for the facet under analysis
    facet_status,     \* the FacetStatus returned last by analyze_facet
    \* ---- HTTPVerifier ----
    heap,             \* the dict objects: heap[id] is the dict with identity id
    recommendations,  \* the caller's list: ids of the recommendation dicts
    given,            \* list and heap as they were when the call started
    pc,               \* "idle", "probing" (inside verify_batch), "done",
                      \* "aborting" (an exception leaves the with block) or
                      \* "raised" (the exception has left verify_batch)
    futures,          \* future_to_url: one future per submitted URL
    results,          \* the results list of verify_batch, in collection order
    batch_result,     \* the BatchVerificationResult of verify_batch
    verified_recommendations,  \* the returned list: ids of the copies
    call,             \* the entry point called and how often it has been
    max_workers,      \* self.max_workers
    progress_callback,  \* the progress_callback argument of verify_batch
    clock,            \* time slept since start_time, in units of
                      \* rate_limit_delay
    last_request_at,  \* the time at which the last HEAD request was issued
    previous,         \* output and results of the call before this one
    \* ---- FacetDetector ----
    crawl_df,         \* self.crawl: rows [url, status]
    registry,         \* GENERIC_PATTERNS as the detector finds it
    brand_order,      \* the order in which this process iterates all_brands
    detected_facets,  \* self.detected_facets
    detect_done,      \* whether detect_all has run on this detector
    first_detected,   \* what the first detect_all on this crawl returned
    unknown_patterns, \* what detect_unknown_patterns returned last
    custom,           \* the last add_custom_facet call and what it returned
    \* ---- EmailAuthenticator ----
    auth_codes,       \* st.session_state.auth_codes: pending codes by email
    authenticated,    \* st.session_state.authenticated
    user_email,       \* st.session_state.user_email
    auth_timestamp,   \* st.session_state.auth_timestamp
    smtp_configured,  \* whether host, username, password and from_email are set
    now,              \* datetime.now(), in minutes
    sends,            \* how many codes have been generated
    login_call,       \* the last call on the authenticator and what it returned
    \* ---- DualAIClient ----
    ai_results,       \* the dict returned last by analyze_with_validation
    total_cost        \* self.total_cost, in units of one call's cost estimate

authVars == <<crawl, adobe_urls, has_status_col, merged, no_dist_call,
              dilution_call, analysis>>
scoringVars == <<weights, breakdown, earlier_total, facet, facet_status>>

verifyVars == <<heap, recommendations, given, pc, futures, results,
                batch_result, verified_recommendations, call, max_workers,
                progress_callback, clock, last_request_at, previous>>

detectorVars == <<crawl_df, registry, brand_order, detected_facets,
                  detect_done, first_detected, unknown_patterns, custom>>

loginVars == <<auth_codes, authenticated, user_email, auth_timestamp,
               smtp_configured, now, sends, login_call>>

aiVars == <<ai_results, total_cost>>

vars == <<authVars, scoringVars, verifyVars, detectorVars, loginVars, aiVars>>

----------------------------------------------------------------------------
(* Bounds of the model *)

\* Rows of the multi-row crawl tables.
MaxCrawl == 2
\* Rows of the multi-row traffic tables (two rows may name the same URL).
MaxAdobe == 2
\* Rows of the bulk crawls, enough for more than 20 leaks.
MaxBulk == 22
\* Recommendations handed to verify_recommendations.
MaxRecs == 2
\* Rows of the small crawls handed to the facet detector.
MaxRows == 2
\* Custom facets added to one detector.
MaxCustom == 1
\* Codes generated in one session.
MaxSends == 2
\* Steps of the clock in one session.
MaxTicks == 2
\* Cost of one session of the AI client, in calls.
MaxCost == 6

----------------------------------------------------------------------------
(* Generic helpers *)

Min2(a, b) == IF a <= b THEN a ELSE b
Max2(a, b) == IF a >= b THEN a ELSE b

SeqsUpTo(S, n) == UNION {[1..k -> S] : k \in 0..n}

RECURSIVE SumSeq(_)
SumSeq(s) == IF s = <<>> THEN 0 ELSE Head(s) + SumSeq(Tail(s))

\* Python's s[:n]
Take(s, n) == SubSeq(s, 1, Min2(n, Len(s)))

----------------------------------------------------------------------------
(* AuthorityAnalyzer *)

\* Program constants of authority_analyzer.py
NoDistMinTrafficDefault == 100
NoDistHighTraffic == 5000
NoDistMediumTraffic == 1000
DilutionMaxLinksDefault == 10
DilutionMinTrafficDefault == 500
TopLeaks == 20
StatusLive == 200
StatusNotFound == 404

\* A join that keeps no left row without a match (how='inner').
JoinRow_Inner(row, adobe) ==
    LET matches == SelectSeq(adobe, LAMBDA a : a.url_full = row.url)
    IN  [j \in 1..Len(matches) |->
            [url |-> row.url, status |-> row.status, links |-> row.links,
             visits_seo |-> matches[j].visits_seo]]

\* pandas DataFrame.merge(how='left'): every left row once per matching right
\* row, in right order; a left row with no match is kept once with NaN,
\* which fillna(0) turns into 0.
JoinRow(row, adobe) ==
    LET matches == SelectSeq(adobe, LAMBDA a : a.url_full = row.url)
    IN  IF matches = <<>>
        THEN << [url |-> row.url, status |-> row.status, links |-> row.links,
                 visits_seo |-> 0] >>
        ELSE [j \in 1..Len(matches) |->
                [url |-> row.url, status |-> row.status, links |-> row.links,
                 visits_seo |-> matches[j].visits_seo]]

RECURSIVE LeftJoin(_, _)
LeftJoin(c, adobe) ==
    IF c = <<>> THEN <<>>
    ELSE JoinRow(Head(c), adobe) \o LeftJoin(Tail(c), adobe)

\* AuthorityAnalyzer._merge_data
MergeData(c, adobe) ==
    IF Len(adobe) = 0
    THEN [i \in 1..Len(c) |->
            [url |-> c[i].url, status |-> c[i].status, links |-> c[i].links,
             visits_seo |-> 0]]
    ELSE LeftJoin(c, adobe)

Urls200_Unfiltered(m, hasStatus) == m

\* urls_200 of both analyses: the status filter applies only when the crawl
\* has a status column.
Urls200(m, hasStatus) ==
    IF hasStatus THEN SelectSeq(m, LAMBDA r : r.status = StatusLive) ELSE m

LeakKey_AlwaysLinks(l, key) == l.wrapper_links

\* The sort keys of the leak lists: lambda x: x.traffic_seo and
\* lambda x: x.wrapper_links.
LeakKey(l, key) == IF key = "traffic_seo" THEN l.traffic_seo ELSE l.wrapper_links

\* Python's sorted(leaks, key=..., reverse=True): stable, descending.
RECURSIVE InsertDesc(_, _, _)
InsertDesc(x, s, key) ==
    IF s = <<>> THEN <<x>>
    ELSE IF LeakKey(Head(s), key) >= LeakKey(x, key)
         THEN <<Head(s)>> \o InsertDesc(x, Tail(s), key)
         ELSE <<x>> \o s

RECURSIVE SortedDesc(_, _)
SortedDesc(s, key) ==
    IF s = <<>> THEN <<>>
    ELSE LET n == Len(s)
         IN  InsertDesc(s[n], SortedDesc(SubSeq(s, 1, n - 1), key), key)

NoDistSeverity(traffic) ==
    IF traffic > NoDistHighTraffic THEN "high"
    ELSE IF traffic > NoDistMediumTraffic THEN "medium" ELSE "low"

NoDistSelected_Strict(r, min_traffic) ==
    r.links = 0 /\ r.visits_seo > min_traffic

NoDistSelected(r, min_traffic) ==
    r.links = 0 /\ r.visits_seo >= min_traffic

\* AuthorityAnalyzer.analyze_no_distribution
analyze_no_distribution(m, hasStatus, min_traffic) ==
    LET no_dist == SelectSeq(Urls200(m, hasStatus),
                             LAMBDA r : NoDistSelected(r, min_traffic))
        leaks == [i \in 1..Len(no_dist) |->
                    [url |-> no_dist[i].url,
                     traffic_seo |-> no_dist[i].visits_seo,
                     wrapper_links |-> 0,
                     leak_type |-> "no_distribution",
                     severity |-> NoDistSeverity(no_dist[i].visits_seo),
                     recommendation |-> <<"add_wrapper", 0, 0>>]]
    IN  SortedDesc(leaks, "traffic_seo")

\* ratio = links / max(traffic, 1) compared with 0.5 and 0.1.  The quotient
\* of two integers below 2^53 is correctly rounded, so ratio > 0.5 is
\* 2*links > max(traffic,1) and ratio > 0.1 is 10*links > max(traffic,1).
\* A zero denominator raises ZeroDivisionError in Python.
DilutionSeverity_NoFloor(links, traffic) ==
    LET den == traffic
    IN  IF den = 0 THEN "ZeroDivisionError"
        ELSE IF 2 * links > den THEN "high"
        ELSE IF 10 * links > den THEN "medium" ELSE "low"

DilutionSeverity_Inclusive(links, traffic) ==
    LET den == Max2(traffic, 1)
    IN  IF den = 0 THEN "ZeroDivisionError"
        ELSE IF 2 * links > den THEN "high"
        ELSE IF 10 * links >= den THEN "medium" ELSE "low"

DilutionSeverity(links, traffic) ==
    LET den == Max2(traffic, 1)
    IN  IF den = 0 THEN "ZeroDivisionError"
        ELSE IF 2 * links > den THEN "high"
        ELSE IF 10 * links > den THEN "medium" ELSE "low"

DilutionSelected_Below(r, max_links, min_traffic) ==
    r.links <= max_links /\ r.visits_seo < min_traffic

DilutionSelected(r, max_links, min_traffic) ==
    r.links >= max_links /\ r.visits_seo < min_traffic

\* AuthorityAnalyzer.analyze_dilution
analyze_dilution(m, hasStatus, max_links, min_traffic) ==
    LET dilution == SelectSeq(Urls200(m, hasStatus),
                        LAMBDA r : DilutionSelected(r, max_links, min_traffic))
        leaks == [i \in 1..Len(dilution) |->
                    [url |-> dilution[i].url,
                     traffic_seo |-> dilution[i].visits_seo,
                     wrapper_links |-> dilution[i].links,
                     leak_type |-> "dilution",
                     severity |-> DilutionSeverity(dilution[i].links,
                                                   dilution[i].visits_seo),
                     recommendation |-> <<"reduce_links", dilution[i].links,
                                          max_links>>]]
    IN  SortedDesc(leaks, "wrapper_links")

\* pandas DataFrame.merge(how='inner') of the 404 rows with the traffic
\* table, then the sum of visits_seo over the joined rows.
RECURSIVE InnerJoinVisits(_, _)
InnerJoinVisits(c, adobe) ==
    IF c = <<>> THEN 0
    ELSE LET matches == SelectSeq(adobe, LAMBDA a : a.url_full = Head(c).url)
         IN  SumSeq([j \in 1..Len(matches) |-> matches[j].visits_seo])
             + InnerJoinVisits(Tail(c), adobe)

\* AuthorityAnalyzer.analyze_dead_ends (count and traffic)
analyze_dead_ends(c, adobe, hasStatus) ==
    IF ~hasStatus THEN [count |-> 0, traffic |-> 0]
    ELSE LET urls_404 == SelectSeq(c, LAMBDA r : r.status = StatusNotFound)
         IN  [count |-> Len(urls_404),
              traffic |-> IF Len(adobe) > 0
                          THEN InnerJoinVisits(urls_404, adobe) ELSE 0]

\* AuthorityAnalyzer.get_full_analysis
get_full_analysis(c, adobe, m, hasStatus) ==
    LET no_dist_leaks == analyze_no_distribution(m, hasStatus,
                                                 NoDistMinTrafficDefault)
        no_dist_traffic == SumSeq([i \in 1..Len(no_dist_leaks) |->
                                     no_dist_leaks[i].traffic_seo])
        dilution_leaks == analyze_dilution(m, hasStatus,
                              DilutionMaxLinksDefault, DilutionMinTrafficDefault)
        dead == analyze_dead_ends(c, adobe, hasStatus)
        all_leaks == no_dist_leaks \o dilution_leaks
    IN  [done |-> TRUE,
         total_leaks |-> Len(no_dist_leaks) + Len(dilution_leaks),
         total_traffic_affected |-> no_dist_traffic + dead.traffic,
         leaks_by_type |-> [no_distribution |-> Len(no_dist_leaks),
                            dilution |-> Len(dilution_leaks),
                            dead_ends |-> dead.count],
         all_leaks |-> all_leaks,
         top_leaks |-> Take(SortedDesc(all_leaks, "traffic_seo"), TopLeaks),
         dead_ends_count |-> dead.count,
         dead_ends_traffic |-> dead.traffic]

----------------------------------------------------------------------------
(* Inputs of the authority analysis *)

\* Traffic and link values on both sides of every threshold of the analyses.
GridVisits == {0, 20, 100, 200, 500, 1000, 5000, 6000}
GridLinks == {0, 10, 20}
GridStatus == {StatusLive, StatusNotFound}
TwoUrls == {1, 2}

GridCrawlRow == [url : {1}, status : GridStatus, links : GridLinks]
GridAdobeRow == [url_full : TwoUrls, visits_seo : GridVisits]

\* One crawl row over the whole grid, with or without a status column.
GridInputs ==
    [crawl : [1..1 -> GridCrawlRow], adobe : SeqsUpTo(GridAdobeRow, 1),
     has_status : BOOLEAN]

TableCrawlRow ==
    {[url |-> u, status |-> p[1], links |-> p[2]] :
        u \in TwoUrls, p \in {<<200, 0>>, <<200, 20>>, <<404, 0>>}}
TableAdobeRow == [url_full : TwoUrls, visits_seo : {200, 6000}]

\* Several rows; URLs may repeat in the crawl and in the traffic table.
TableInputs ==
    [crawl : SeqsUpTo(TableCrawlRow, MaxCrawl),
     adobe : SeqsUpTo(TableAdobeRow, MaxAdobe),
     has_status : {TRUE}]

\* Bulk crawls: n live rows with distinct URLs that alternate between two
\* profiles (links, visits); visits grow with the row number by step.
BulkProfile == {<<0, 6000>>, <<0, 200>>, <<20, 200>>, <<20, 0>>}
BulkInput(n, p1, p2, step) ==
    LET prof(i) == IF i % 2 = 1 THEN p1 ELSE p2
    IN  [crawl |-> [i \in 1..n |->
                      [url |-> i, status |-> StatusLive, links |-> prof(i)[1]]],
         adobe |-> [i \in 1..n |->
                      [url_full |-> i, visits_seo |-> prof(i)[2] + step * i]],
         has_status |-> TRUE]
BulkInputs ==
    {BulkInput(n, p1, p2, step) :
        n \in (MaxBulk - 2)..MaxBulk, p1 \in BulkProfile, p2 \in BulkProfile,
        step \in {0, 1}}

AuthorityInputs == GridInputs \cup TableInputs \cup BulkInputs

NoDistArgs == {NoDistMinTrafficDefault, 1000}
DilutionArgs == {<<DilutionMaxLinksDefault, DilutionMinTrafficDefault>>,
                 <<0, DilutionMinTrafficDefault>>,
                 <<DilutionMaxLinksDefault, 6001>>}

NotCalled == [called |-> FALSE, args |-> <<>>, leaks |-> <<>>]
NoAnalysis ==
    [done |-> FALSE, total_leaks |-> 0, total_traffic_affected |-> 0,
     leaks_by_type |-> [no_distribution |-> 0, dilution |-> 0, dead_ends |-> 0],
     all_leaks |-> <<>>, top_leaks |-> <<>>,
     dead_ends_count |-> 0, dead_ends_traffic |-> 0]

\* The scorer's state while no scorer is in use.
NoWeights == [ok |-> FALSE, error |-> "", num |-> <<>>, den |-> 0]
NoBreakdown ==
    [scored |-> FALSE, total_score |-> 0, components |-> <<>>,
     raw_values |-> <<>>, confidence |-> "low", data_sources_count |-> 0]

\* Python's None
None == [none |-> TRUE]
\* The authenticator before any call on it, and the AI client before any
\* analysis.
NoLoginCall ==
    [op |-> "", email |-> <<>>, code |-> <<>>, ok |-> FALSE, message |-> ""]
NoResults ==
    [returned |-> FALSE, primary |-> None, validation |-> None,
     consensus |-> FALSE, confidence |-> "LOW", merged_response |-> None,
     cost |-> 0, errors |-> <<>>]

\* The facet analyzer's state while no facet is analysed.
NoFacet ==
    [urls_200 |-> 0, urls_404 |-> 0, traffic_seo |-> 0, demand_adobe |-> 0,
     demand_keywords |-> 0, in_wrapper |-> FALSE, demand_semrush |-> 0,
     demand_kp |-> 0, traffic_gsc |-> 0, demand_filters |-> 0]
NoFacetStatus ==
    [analysed |-> FALSE, urls_200 |-> 0, urls_404 |-> 0, traffic_seo |-> 0,
     demand_adobe |-> 0, demand_keywords |-> 0, in_wrapper |-> FALSE,
     status |-> "", opportunity_score |-> 0, confidence |-> "",
     recommendation |-> ""]

\* The verifier's state while no verification is asked for.
NoBatch ==
    [total_urls |-> 0, verified |-> 0, ok_count |-> 0, redirect_count |-> 0,
     not_found_count |-> 0, error_count |-> 0, results |-> <<>>]
NothingGiven == [list |-> <<>>, heap |-> <<>>]
NoCall == [entry |-> "", run |-> 0]
NoCallback == [given |-> FALSE, raises_at |-> 0]
NoPrevious == [out |-> <<>>, results |-> <<>>]
\* max_workers: int = 5
MaxWorkersDefault == 5

\* AuthorityAnalyzer.__init__
AuthorityInit ==
    \E inp \in AuthorityInputs :
        /\ crawl = inp.crawl
        /\ adobe_urls = inp.adobe
        /\ has_status_col = inp.has_status
        /\ merged = MergeData(inp.crawl, inp.adobe)
        /\ no_dist_call = NotCalled
        /\ dilution_call = NotCalled
        /\ analysis = NoAnalysis
        /\ weights = NoWeights
        /\ breakdown = NoBreakdown
        /\ earlier_total = -1
        /\ facet = NoFacet
        /\ facet_status = NoFacetStatus
        /\ heap = <<>>
        /\ recommendations = <<>>
        /\ given = NothingGiven
        /\ pc = "idle"
        /\ futures = <<>>
        /\ results = <<>>
        /\ batch_result = NoBatch
        /\ verified_recommendations = <<>>
        /\ call = NoCall
        /\ max_workers = MaxWorkersDefault
        /\ progress_callback = NoCallback
        /\ clock = 0
        /\ last_request_at = -1
        /\ previous = NoPrevious
        /\ crawl_df = <<>>
        /\ registry = <<>>
        /\ brand_order = <<>>
        /\ detected_facets = <<>>
        /\ detect_done = FALSE
        /\ first_detected = [set |-> FALSE, facets |-> {}]
        /\ unknown_patterns = [called |-> FALSE, result |-> <<>>]
        /\ custom = [called |-> FALSE]
        /\ auth_codes = <<>>
        /\ authenticated = FALSE
        /\ user_email = None
        /\ auth_timestamp = None
        /\ smtp_configured = FALSE
        /\ now = 0
        /\ sends = 0
        /\ login_call = NoLoginCall
        /\ ai_results = NoResults
        /\ total_cost = 0

AnalyzeNoDistribution ==
    \E min_traffic \in NoDistArgs :
        /\ no_dist_call' =
              [called |-> TRUE, args |-> <<min_traffic>>,
               leaks |-> analyze_no_distribution(merged, has_status_col,
                                                 min_traffic)]
        /\ UNCHANGED <<crawl, adobe_urls, has_status_col, merged,
                       dilution_call, analysis>>
        /\ UNCHANGED <<scoringVars, verifyVars, detectorVars, loginVars, aiVars>>

AnalyzeDilution ==
    \E a \in DilutionArgs :
        /\ dilution_call' =
              [called |-> TRUE, args |-> a,
               leaks |-> analyze_dilution(merged, has_status_col, a[1], a[2])]
        /\ UNCHANGED <<crawl, adobe_urls, has_status_col, merged,
                       no_dist_call, analysis>>
        /\ UNCHANGED <<scoringVars, verifyVars, detectorVars, loginVars, aiVars>>

GetFullAnalysis ==
    /\ analysis' = get_full_analysis(crawl, adobe_urls, merged, has_status_col)
    /\ UNCHANGED <<crawl, adobe_urls, has_status_col, merged, no_dist_call,
                   dilution_call>>
    /\ UNCHANGED <<scoringVars, verifyVars, detectorVars, loginVars, aiVars>>

AuthorityNext == AnalyzeNoDistribution \/ AnalyzeDilution \/ GetFullAnalysis

----------------------------------------------------------------------------
(* Claims about the authority analysis *)

ToSet(s) == {s[i] : i \in DOMAIN s}
CountIn(x, s) == Cardinality({i \in DOMAIN s : s[i] = x})
LeakUrls(leaks) == {leaks[i].url : i \in DOMAIN leaks}
BothCalled == no_dist_call.called /\ dilution_call.called
UniqueCrawlUrls ==
    \A i, j \in DOMAIN crawl : crawl[i].url = crawl[j].url => i = j

\* C1 (as stated): whatever the thresholds, no URL is returned as a leak by
\* both analyze_no_distribution and analyze_dilution.
C1_NoUrlInBoth_AnyThresholds ==
    BothCalled =>
        LeakUrls(no_dist_call.leaks) \cap LeakUrls(dilution_call.leaks) = {}

\* C1 (amended): when max_links >= 1 and the crawl has one row per URL, no
\* URL is returned as a leak by both analyses.
C1_NoUrlInBoth ==
    (BothCalled /\ dilution_call.args[1] >= 1 /\ UniqueCrawlUrls) =>
        LeakUrls(no_dist_call.leaks) \cap LeakUrls(dilution_call.leaks) = {}

C1_Witness ==
    /\ BothCalled /\ dilution_call.args[1] >= 1 /\ UniqueCrawlUrls
    /\ no_dist_call.leaks # <<>>
    /\ dilution_call.leaks # <<>>

NoDistDefaultCall ==
    no_dist_call.called /\ no_dist_call.args = <<NoDistMinTrafficDefault>>
DilutionDefaultCall ==
    /\ dilution_call.called
    /\ dilution_call.args =
          <<DilutionMaxLinksDefault, DilutionMinTrafficDefault>>

\* C5: on a crawl with a status column, analyze_no_distribution() returns
\* one leak per joined row with status 200, no wrapper links and traffic
\* >= 100, and nothing else; severity is high above 5000, medium above 1000
\* up to 5000, low otherwise.
C5_NoDistribution ==
    (NoDistDefaultCall /\ has_status_col) =>
        LET sel == SelectSeq(merged, LAMBDA r :
                      r.status = 200 /\ r.links = 0 /\ r.visits_seo >= 100)
            leaks == no_dist_call.leaks
        IN  /\ Len(leaks) = Len(sel)
            /\ \A r \in ToSet(sel) :
                  CountIn(r, sel) =
                  Cardinality({i \in DOMAIN leaks :
                      leaks[i].url = r.url /\ leaks[i].traffic_seo = r.visits_seo})
            /\ \A i \in DOMAIN leaks :
                  /\ leaks[i].leak_type = "no_distribution"
                  /\ leaks[i].severity =
                        (IF leaks[i].traffic_seo > 5000 THEN "high"
                         ELSE IF leaks[i].traffic_seo > 1000 THEN "medium"
                         ELSE "low")

C5_Witness ==
    /\ NoDistDefaultCall /\ has_status_col
    /\ \E i \in DOMAIN no_dist_call.leaks :
          /\ no_dist_call.leaks[i].traffic_seo = 6000
          /\ no_dist_call.leaks[i].severity = "high"
    /\ \E i \in DOMAIN merged : merged[i].status = 404

\* C6: on a crawl with a status column, analyze_dilution() returns one leak
\* per joined row with status 200, at least 10 wrapper links and traffic
\* < 500, and nothing else; with ratio = links / max(traffic, 1) severity is
\* high above 0.5, medium above 0.1 up to 0.5, low otherwise; a row with
\* traffic 0 is classified, no division by zero happens.
C6_Dilution ==
    (DilutionDefaultCall /\ has_status_col) =>
        LET sel == SelectSeq(merged, LAMBDA r :
                      r.status = 200 /\ r.links >= 10 /\ r.visits_seo < 500)
            leaks == dilution_call.leaks
        IN  /\ Len(leaks) = Len(sel)
            /\ \A r \in ToSet(sel) :
                  CountIn(r, sel) =
                  Cardinality({i \in DOMAIN leaks :
                      /\ leaks[i].url = r.url
                      /\ leaks[i].traffic_seo = r.visits_seo
                      /\ leaks[i].wrapper_links = r.links})
            /\ \A i \in DOMAIN leaks :
                  LET l == leaks[i]
                      den == IF l.traffic_seo >= 1 THEN l.traffic_seo ELSE 1
                  IN  /\ l.leak_type = "dilution"
                      /\ l.severity =
                            (IF 2 * l.wrapper_links > den THEN "high"
                             ELSE IF 10 * l.wrapper_links > den THEN "medium"
                             ELSE "low")

C6_Witness ==
    /\ DilutionDefaultCall /\ has_status_col
    /\ \E i \in DOMAIN dilution_call.leaks :
          /\ dilution_call.leaks[i].traffic_seo = 0
          /\ dilution_call.leaks[i].severity = "high"

IsScenario3(r) == r.status = 200 /\ r.links = 20 /\ r.visits_seo = 200

\* C7 (as stated): a URL with status 200, 20 wrapper links and traffic 200
\* (ratio exactly 0.1) is a dilution leak of severity medium.
C7_BoundaryIsMedium ==
    (DilutionDefaultCall /\ has_status_col) =>
        \A i \in DOMAIN merged : IsScenario3(merged[i]) =>
            \E j \in DOMAIN dilution_call.leaks :
                LET l == dilution_call.leaks[j]
                IN  /\ l.url = merged[i].url /\ l.wrapper_links = 20
                    /\ l.traffic_seo = 200 /\ l.severity = "medium"

\* C7 (amended): a URL with status 200, 20 wrapper links and traffic 200
\* (ratio exactly 0.1) is a dilution leak of severity low, because the
\* medium branch needs ratio > 0.1.
C7_BoundaryIsLow ==
    (DilutionDefaultCall /\ has_status_col) =>
        \A i \in DOMAIN merged : IsScenario3(merged[i]) =>
            /\ \E j \in DOMAIN dilution_call.leaks :
                  LET l == dilution_call.leaks[j]
                  IN  /\ l.url = merged[i].url /\ l.wrapper_links = 20
                      /\ l.traffic_seo = 200 /\ l.severity = "low"
            /\ \A j \in DOMAIN dilution_call.leaks :
                  LET l == dilution_call.leaks[j]
                  IN  (l.wrapper_links = 20 /\ l.traffic_seo = 200)
                         => l.severity = "low"

C7_Witness ==
    /\ DilutionDefaultCall /\ has_status_col
    /\ \E i \in DOMAIN merged : IsScenario3(merged[i])

\* The leaks of all_leaks that top_leaks leaves out.
LeftOut(a) ==
    {l \in ToSet(a.all_leaks) : CountIn(l, a.all_leaks) > CountIn(l, a.top_leaks)}

\* C8: top_leaks of get_full_analysis is drawn from the no_distribution and
\* dilution leaks, has min(20, number of leaks) entries, is ordered by
\* traffic non-increasing, and no leak left out has more traffic than a
\* leak in top_leaks.
C8_TopLeaks ==
    analysis.done =>
        LET top == analysis.top_leaks
            all == analysis.all_leaks
        IN  /\ Len(all) = analysis.total_leaks
            /\ \A l \in ToSet(all) :
                  l.leak_type \in {"no_distribution", "dilution"}
            /\ \A l \in ToSet(top) : CountIn(l, top) <= CountIn(l, all)
            /\ Len(top) = (IF Len(all) < 20 THEN Len(all) ELSE 20)
            /\ \A i \in 1..(Len(top) - 1) :
                  top[i].traffic_seo >= top[i + 1].traffic_seo
            /\ \A o \in LeftOut(analysis) : \A i \in DOMAIN top :
                  o.traffic_seo <= top[i].traffic_seo

C8_Witness ==
    /\ analysis.done
    /\ Len(analysis.all_leaks) > 20
    /\ Len(analysis.top_leaks) = 20
    /\ \E o \in LeftOut(analysis) :
          o.traffic_seo < analysis.top_leaks[1].traffic_seo
    /\ \E i \in DOMAIN analysis.top_leaks :
          analysis.top_leaks[i].leak_type = "dilution"
    /\ \E i \in DOMAIN analysis.top_leaks :
          analysis.top_leaks[i].leak_type = "no_distribution"

\* DataLoader.merge_crawl_with_traffic on a loaded crawl: zeros when no
\* traffic table is loaded (an empty table stands for it), the left join
\* otherwise.
merge_crawl_with_traffic(c, adobe) ==
    IF adobe = <<>>
    THEN [i \in 1..Len(c) |->
            [url |-> c[i].url, status |-> c[i].status, links |-> c[i].links,
             visits_seo |-> 0]]
    ELSE LeftJoin(c, adobe)

HasTraffic(url) == \E a \in DOMAIN adobe_urls : adobe_urls[a].url_full = url

\* Every crawl row's URL is in the table m, and with traffic 0 where the
\* traffic table has no row for it.
TotalOnCrawl(m) ==
    \A i \in DOMAIN crawl :
        /\ \E k \in DOMAIN m :
              /\ m[k].url = crawl[i].url
              /\ m[k].status = crawl[i].status
              /\ m[k].links = crawl[i].links
        /\ ~HasTraffic(crawl[i].url) =>
              \A k \in DOMAIN m : m[k].url = crawl[i].url => m[k].visits_seo = 0

NotFoundUrls ==
    IF has_status_col
    THEN {crawl[i].url : i \in {j \in DOMAIN crawl :
                                   crawl[j].status = StatusNotFound}}
    ELSE {}

VisitsOf(urls) ==
    SumSeq([a \in DOMAIN adobe_urls |->
               IF adobe_urls[a].url_full \in urls
               THEN adobe_urls[a].visits_seo ELSE 0])

DeadEndsInAggregate ==
    /\ \A i \in DOMAIN analysis.top_leaks :
          /\ analysis.top_leaks[i].url \notin NotFoundUrls
          /\ analysis.top_leaks[i].leak_type # "dead_end"
    /\ analysis.dead_ends_count = Cardinality(NotFoundUrls)
    /\ analysis.dead_ends_traffic = VisitsOf(NotFoundUrls)

\* C22 (as stated): in the result of get_full_analysis no URL with status
\* 404 is in top_leaks and no leak has type dead_end; dead_ends_count is
\* the number of crawl URLs with status 404 and dead_ends_traffic the sum
\* of the traffic-table visits of the 404 URLs that have a row there.
C22_DeadEndsInAggregate_AnyCrawl == analysis.done => DeadEndsInAggregate

\* C22 (amended): the same, for a crawl that has one row per URL.
C22_DeadEndsInAggregate ==
    (analysis.done /\ UniqueCrawlUrls) => DeadEndsInAggregate

\* A crawl of two URLs, one of them not found and with visits in the
\* traffic table, the other a leak.
C22_Witness ==
    /\ analysis.done
    /\ UniqueCrawlUrls
    /\ analysis.top_leaks # <<>>
    /\ analysis.dead_ends_count = 1
    /\ analysis.dead_ends_traffic > 0

\* The rows of a table for one URL.
RowsFor(url, table) == Cardinality({i \in DOMAIN table : table[i].url = url})

AtMostOnePerCrawlRow(leaks) ==
    \A i \in DOMAIN leaks :
        RowsFor(leaks[i].url, leaks) <= RowsFor(leaks[i].url, crawl)

\* C30: the traffic join keeps the crawl's row count, whatever the traffic
\* table: the merged table has one row per crawl row, each analysis
\* returns at most one leak per crawl row and the counts of
\* get_full_analysis count URLs, not joined rows.
C30_RowCountPreserved ==
    /\ Len(merged) = Len(crawl)
    /\ \A i \in DOMAIN crawl : RowsFor(crawl[i].url, merged)
                                  = RowsFor(crawl[i].url, crawl)
    /\ no_dist_call.called => AtMostOnePerCrawlRow(no_dist_call.leaks)
    /\ dilution_call.called => AtMostOnePerCrawlRow(dilution_call.leaks)
    /\ analysis.done =>
          /\ analysis.total_leaks <= 2 * Len(crawl)
          /\ analysis.leaks_by_type.no_distribution <= Len(crawl)
          /\ analysis.leaks_by_type.dilution <= Len(crawl)

----------------------------------------------------------------------------
(* ScoringWeights and FacetScorer *)

\* Weights are counted in thousandths (0.15 is 150); a ScoringWeights object
\* is the record of its eight fields.  After __post_init__ every weight is
\* the fraction num / den: den is 1000 when the weights are left as given
\* and the raw total when they are multiplied by factor = 1.0 / total.
\* Scores are counted in hundredths (100.0 is 10000).  Arithmetic is exact.

DefaultWeights ==
    [demand_semrush |-> 150, demand_kp |-> 150, traffic_gsc |-> 150,
     traffic_adobe |-> 100, demand_filters |-> 200, commercial_intent |-> 100,
     longtail_coverage |-> 50, revenue_potential |-> 100]

WeightTotal(w) ==
    w.demand_semrush + w.demand_kp + w.traffic_gsc + w.traffic_adobe
    + w.demand_filters + w.commercial_intent + w.longtail_coverage
    + w.revenue_potential

Abs(x) == IF x >= 0 THEN x ELSE 0 - x

\* abs(total - 1.0) > 0.01, with total in thousandths
NeedsNormalizing_Loose(total) == Abs(total - 1000) * 10 > 1000

NeedsNormalizing(total) == Abs(total - 1000) * 100 > 1000

\* ScoringWeights.__post_init__: factor = 1.0 / total raises
\* ZeroDivisionError when total is 0, and then no object is constructed.
ScoringWeights(w) ==
    LET total == WeightTotal(w)
    IN  IF NeedsNormalizing(total)
        THEN IF total = 0
             THEN [ok |-> FALSE, error |-> "ZeroDivisionError", num |-> w,
                   den |-> 0]
             ELSE [ok |-> TRUE, error |-> "", num |-> w, den |-> total]
        ELSE [ok |-> TRUE, error |-> "", num |-> w, den |-> 1000]

\* FacetScorer.DEFAULT_THRESHOLDS
DEFAULT_THRESHOLDS ==
    [demand_very_high |-> 100000, demand_high |-> 50000,
     demand_medium |-> 10000, demand_low |-> 1000,
     traffic_very_high |-> 50000, traffic_high |-> 10000,
     traffic_medium |-> 1000, traffic_low |-> 100]

\* A linear piece base + 30 * (value - lo) / (hi - lo), in hundredths.  The
\* values scored by the model lie where the quotient is a whole number of
\* hundredths, so the integer division is exact.
Interpolate_Reversed(base, value, lo, hi) ==
    base * 100 + (3000 * (lo - value)) \div (hi - lo)

Interpolate(base, value, lo, hi) ==
    base * 100 + (3000 * (value - lo)) \div (hi - lo)

\* FacetScorer._normalize_demand
normalize_demand(value) ==
    LET t == DEFAULT_THRESHOLDS
    IN  IF value >= t.demand_very_high THEN 10000
        ELSE IF value >= t.demand_high
             THEN Interpolate(70, value, t.demand_high, t.demand_very_high)
        ELSE IF value >= t.demand_medium
             THEN Interpolate(40, value, t.demand_medium, t.demand_high)
        ELSE IF value >= t.demand_low
             THEN Interpolate(10, value, t.demand_low, t.demand_medium)
        ELSE (1000 * value) \div Max2(t.demand_low, 1)

\* FacetScorer._normalize_traffic
normalize_traffic(value) ==
    LET t == DEFAULT_THRESHOLDS
    IN  IF value >= t.traffic_very_high THEN 10000
        ELSE IF value >= t.traffic_high
             THEN Interpolate(70, value, t.traffic_high, t.traffic_very_high)
        ELSE IF value >= t.traffic_medium
             THEN Interpolate(40, value, t.traffic_medium, t.traffic_high)
        ELSE IF value >= t.traffic_low
             THEN Interpolate(10, value, t.traffic_low, t.traffic_medium)
        ELSE (1000 * value) \div Max2(t.traffic_low, 1)

\* An intent string is the sequence of its comma-separated parts, each
\* lower-cased, stripped and cut to its first letter ("" for an empty part).
IntentLetterScore(c) ==
    IF c = "t" THEN 100 ELSE IF c = "c" THEN 80
    ELSE IF c = "i" THEN 40 ELSE IF c = "n" THEN 60 ELSE 0

RECURSIVE MaxIntent(_)
MaxIntent(parts) ==
    IF parts = <<>> THEN 0
    ELSE Max2(IntentLetterScore(Head(parts)), MaxIntent(Tail(parts)))

\* FacetScorer._normalize_intent, in hundredths
normalize_intent(intent) ==
    IF Len(intent) > 1
    THEN (IF MaxIntent(intent) > 0 THEN MaxIntent(intent) ELSE 50) * 100
    ELSE IF IntentLetterScore(intent[1]) > 0
         THEN IntentLetterScore(intent[1]) * 100
         ELSE 5000

\* Python's round() of the fraction n / d to a whole number: ties to even.
RoundHalfEven(n, d) ==
    LET q == n \div d
        r == n % d
    IN  IF 2 * r > d THEN q + 1
        ELSE IF 2 * r < d THEN q
        ELSE IF q % 2 = 0 THEN q ELSE q + 1

\* min(x / cap, 1) * 100, in hundredths
CappedShare(x, cap) == IF x >= cap THEN 10000 ELSE (10000 * x) \div cap

ScoreConfidence(data_sources) ==
    IF data_sources >= 4 THEN "high"
    ELSE IF data_sources >= 2 THEN "medium" ELSE "low"

\* FacetScorer.score_facet.  weighted[k] is the component k times den.
score_facet(w, in) ==
    LET weighted ==
            [demand_semrush |->
                normalize_demand(in.demand_semrush) * w.num.demand_semrush,
             demand_kp |-> normalize_demand(in.demand_kp) * w.num.demand_kp,
             traffic_gsc |->
                normalize_traffic(in.traffic_gsc) * w.num.traffic_gsc,
             traffic_adobe |->
                normalize_traffic(in.traffic_adobe) * w.num.traffic_adobe,
             demand_filters |->
                normalize_demand(in.demand_filters) * w.num.demand_filters,
             commercial_intent |->
                normalize_intent(in.intent) * w.num.commercial_intent,
             longtail_coverage |->
                CappedShare(in.longtail_count, 100) * w.num.longtail_coverage,
             revenue_potential |->
                CappedShare(in.revenue, 100000) * w.num.revenue_potential]
        total == WeightTotal(weighted)
        data_sources ==
            (IF in.demand_semrush > 0 THEN 1 ELSE 0)
            + (IF in.demand_kp > 0 THEN 1 ELSE 0)
            + (IF in.traffic_gsc > 0 THEN 1 ELSE 0)
            + (IF in.traffic_adobe > 0 THEN 1 ELSE 0)
            + (IF in.demand_filters > 0 THEN 1 ELSE 0)
    IN  [scored |-> TRUE,
         total_score |-> RoundHalfEven(total, w.den),
         components |-> [k \in DOMAIN weighted |->
                            RoundHalfEven(weighted[k], w.den)],
         raw_values |-> in,
         confidence |-> ScoreConfidence(data_sources),
         data_sources_count |-> data_sources]

\* Tier assignment: thresholds {90:S, 75:A, 50:B, 25:C, 0:D} from the
\* highest to the lowest, the first satisfied one wins.
TierThresholds ==
    << <<90, "S">>, <<75, "A">>, <<50, "B">>, <<25, "C">>, <<0, "D">> >>

RECURSIVE FirstTier(_, _)
FirstTier(total_score, thresholds) ==
    IF thresholds = <<>> THEN "none"
    ELSE IF total_score >= Head(thresholds)[1] * 100 THEN Head(thresholds)[2]
    ELSE FirstTier(total_score, Tail(thresholds))

Tier(total_score) == FirstTier(total_score, TierThresholds)

TierRank(t) ==
    IF t = "S" THEN 5 ELSE IF t = "A" THEN 4 ELSE IF t = "B" THEN 3
    ELSE IF t = "C" THEN 2 ELSE IF t = "D" THEN 1 ELSE 0

\* Inputs of the scorer
WeightArgs ==
    {[demand_semrush |-> a, demand_kp |-> r[1], traffic_gsc |-> r[2],
      traffic_adobe |-> r[3], demand_filters |-> r[4],
      commercial_intent |-> r[5], longtail_coverage |-> r[6],
      revenue_potential |-> r[7]] :
        a \in {0, 150, 155},
        r \in {<<0, 0, 0, 0, 0, 0, 0>>,
               <<150, 150, 100, 200, 100, 50, 100>>,
               <<300, 300, 200, 400, 200, 100, 200>>}}

ScoreInputs ==
    {[demand_semrush |-> a, demand_kp |-> b, traffic_gsc |-> c,
      traffic_adobe |-> d[1], demand_filters |-> d[2], intent |-> x[1],
      longtail_count |-> x[2], revenue |-> x[3]] :
        a \in {0, 5500, 100000}, b \in {0, 100000}, c \in {0, 50000},
        d \in {<<0, 0>>, <<50000, 100000>>},
        x \in {<< <<"">>, 0, 0 >>, << <<"t">>, 150, 100000 >>,
               << <<"c", "i">>, 50, 250000 >>}}

\* The scorer of a fresh session: ScoringWeights() with its defaults; no
\* authority analyzer is constructed.
ScoringInit ==
    /\ weights = ScoringWeights(DefaultWeights)
    /\ breakdown = NoBreakdown
    /\ earlier_total = -1
    /\ facet = NoFacet
    /\ facet_status = NoFacetStatus
    /\ crawl = <<>>
    /\ adobe_urls = <<>>
    /\ has_status_col = TRUE
    /\ merged = <<>>
    /\ no_dist_call = NotCalled
    /\ dilution_call = NotCalled
    /\ analysis = NoAnalysis
    /\ heap = <<>>
    /\ recommendations = <<>>
    /\ given = NothingGiven
    /\ pc = "idle"
    /\ futures = <<>>
    /\ results = <<>>
    /\ batch_result = NoBatch
    /\ verified_recommendations = <<>>
    /\ call = NoCall
    /\ max_workers = MaxWorkersDefault
    /\ progress_callback = NoCallback
    /\ clock = 0
    /\ last_request_at = -1
    /\ previous = NoPrevious
    /\ crawl_df = <<>>
    /\ registry = <<>>
    /\ brand_order = <<>>
    /\ detected_facets = <<>>
    /\ detect_done = FALSE
    /\ first_detected = [set |-> FALSE, facets |-> {}]
    /\ unknown_patterns = [called |-> FALSE, result |-> <<>>]
    /\ custom = [called |-> FALSE]
    /\ auth_codes = <<>>
    /\ authenticated = FALSE
    /\ user_email = None
    /\ auth_timestamp = None
    /\ smtp_configured = FALSE
    /\ now = 0
    /\ sends = 0
    /\ login_call = NoLoginCall
    /\ ai_results = NoResults
    /\ total_cost = 0

\* ScoringWeights(...) from the configuration form, and a scorer built on
\* it: the results of the scorer before start afresh.
NewScoringWeights ==
    \E w \in WeightArgs :
        /\ weights' = ScoringWeights(w)
        /\ breakdown' = NoBreakdown
        /\ earlier_total' = -1
        /\ UNCHANGED <<facet, facet_status>>
        /\ UNCHANGED <<authVars, verifyVars, detectorVars, loginVars, aiVars>>

\* FacetScorer.score_facet on one facet's signals
ScoreFacet ==
    \E in \in ScoreInputs :
        /\ weights.ok
        /\ breakdown' = score_facet(weights, in)
        /\ earlier_total' =
              (IF breakdown.scored THEN breakdown.total_score ELSE -1)
        /\ UNCHANGED <<weights, facet, facet_status>>
        /\ UNCHANGED <<authVars, verifyVars, detectorVars, loginVars, aiVars>>

ScoringNext == NewScoringWeights \/ ScoreFacet

----------------------------------------------------------------------------
(* Claims about scoring *)

\* C2: every ScoreBreakdown returned by score_facet has total_score in
\* [0, 100].
C2_TotalScoreInRange ==
    breakdown.scored =>
        (breakdown.total_score >= 0 /\ breakdown.total_score <= 100 * 100)

\* C3: for every weight vector the construction of ScoringWeights succeeds
\* and the resulting weights sum to 1.0 within 0.01.
C3_WeightsSumToOne ==
    /\ weights.ok
    /\ Abs(WeightTotal(weights.num) - weights.den) * 100 <= weights.den

----------------------------------------------------------------------------
(* FacetAnalyzer *)

\* FacetAnalyzer._calculate_opportunity_score
calculate_opportunity_score(facet_data) ==
    LET urls_200 == facet_data.urls_200
        demand == facet_data.demand_adobe + facet_data.demand_keywords
        traffic == facet_data.traffic_seo
        score ==
            (IF demand > 100000 THEN 40 ELSE IF demand > 50000 THEN 30
             ELSE IF demand > 10000 THEN 20 ELSE IF demand > 1000 THEN 10
             ELSE 0)
            + (IF urls_200 > 100 THEN 30 ELSE IF urls_200 > 10 THEN 20
               ELSE IF urls_200 > 0 THEN 10 ELSE 0)
            + (IF ~facet_data.in_wrapper THEN 20 ELSE 0)
            + (IF traffic > 10000 THEN 10 ELSE IF traffic > 1000 THEN 5
               ELSE 0)
    IN  IF urls_200 = 0
        THEN IF demand > 100000 THEN 30 ELSE IF demand > 50000 THEN 20
             ELSE IF demand > 10000 THEN 10 ELSE 5
        ELSE IF score < 100 THEN score ELSE 100

\* FacetAnalyzer._determine_status
determine_status(urls_200, urls_404, in_wrapper) ==
    IF urls_200 > 0 /\ in_wrapper THEN "active"
    ELSE IF urls_200 > 0 /\ ~in_wrapper THEN "partial"
    ELSE IF urls_200 = 0 /\ urls_404 > 0 THEN "eliminated"
    ELSE "missing"

\* A confidence whose thresholds are met by the threshold value itself.
determine_confidence_Inclusive(urls_200, demand, traffic) ==
    LET sources ==
            (IF urls_200 > 0 THEN 1 ELSE 0)
            + (IF demand >= 1000 THEN 1 ELSE 0)
            + (IF traffic >= 100 THEN 1 ELSE 0)
    IN  IF sources >= 3 THEN "high"
        ELSE IF sources >= 2 THEN "medium" ELSE "low"

\* FacetAnalyzer._determine_confidence
determine_confidence(urls_200, demand, traffic) ==
    LET sources ==
            (IF urls_200 > 0 THEN 1 ELSE 0)
            + (IF demand > 1000 THEN 1 ELSE 0)
            + (IF traffic > 100 THEN 1 ELSE 0)
    IN  IF sources >= 3 THEN "high"
        ELSE IF sources >= 2 THEN "medium" ELSE "low"

\* The recommendation of analyze_facet, by what it tells the reader to do.
Recommendation(status, demand_adobe) ==
    IF status = "active" THEN "keep"
    ELSE IF status = "partial" THEN "add_links"
    ELSE IF status = "eliminated"
         THEN IF demand_adobe > 10000 THEN "evaluate_recreate"
              ELSE "insufficient_demand"
    ELSE "no_urls"

\* FacetAnalyzer.analyze_facet, on the counts and sums that the loaded
\* tables give for the facet's pattern.
analyze_facet(f) ==
    LET status == determine_status(f.urls_200, f.urls_404, f.in_wrapper)
    IN  [analysed |-> TRUE, urls_200 |-> f.urls_200, urls_404 |-> f.urls_404,
         traffic_seo |-> f.traffic_seo, demand_adobe |-> f.demand_adobe,
         demand_keywords |-> f.demand_keywords, in_wrapper |-> f.in_wrapper,
         status |-> status,
         opportunity_score |-> calculate_opportunity_score(f),
         confidence |->
            determine_confidence(f.urls_200,
                                 f.demand_adobe + f.demand_keywords,
                                 f.traffic_seo),
         recommendation |-> Recommendation(status, f.demand_adobe)]

\* FacetScorer.score_from_dataframes: the sums over the rows matching the
\* facet's pattern; the tables have no intent and no revenue column, and
\* every matching SEMrush row is one long-tail keyword.
SignalsOf(f) ==
    [demand_semrush |-> f.demand_semrush, demand_kp |-> f.demand_kp,
     traffic_gsc |-> f.traffic_gsc, traffic_adobe |-> f.traffic_seo,
     demand_filters |-> f.demand_filters, intent |-> <<"">>,
     longtail_count |-> (IF f.demand_semrush > 0 THEN 1 ELSE 0),
     revenue |-> 0]

\* Facets of the model: what the tables hold for one pattern.
Facets ==
    {[urls_200 |-> u[1], urls_404 |-> u[2], traffic_seo |-> t,
      demand_adobe |-> d[1], demand_keywords |-> d[2], in_wrapper |-> w,
      demand_semrush |-> s[1], demand_kp |-> s[2], traffic_gsc |-> s[3],
      demand_filters |-> s[4]] :
        u \in {<<0, 0>>, <<0, 40>>, <<1, 0>>, <<101, 40>>},
        t \in {0, 100, 130, 13000},
        d \in {<<0, 0>>, <<1000, 0>>, <<1001, 0>>, <<60000, 0>>,
               <<0, 60000>>, <<60000, 60000>>},
        w \in BOOLEAN,
        s \in {<<0, 0, 0, 0>>, <<500, 0, 50, 0>>, <<500, 5500, 0, 0>>,
               <<5500, 5500, 50, 100000>>, <<0, 0, 0, 100000>>}}

\* A session that has loaded its tables and analyses one facet of them,
\* with the default weights; no authority analyzer is constructed.
FacetsInit ==
    /\ weights = ScoringWeights(DefaultWeights)
    /\ breakdown = NoBreakdown
    /\ earlier_total = -1
    /\ facet \in Facets
    /\ facet_status = NoFacetStatus
    /\ crawl = <<>>
    /\ adobe_urls = <<>>
    /\ has_status_col = TRUE
    /\ merged = <<>>
    /\ no_dist_call = NotCalled
    /\ dilution_call = NotCalled
    /\ analysis = NoAnalysis
    /\ heap = <<>>
    /\ recommendations = <<>>
    /\ given = NothingGiven
    /\ pc = "idle"
    /\ futures = <<>>
    /\ results = <<>>
    /\ batch_result = NoBatch
    /\ verified_recommendations = <<>>
    /\ call = NoCall
    /\ max_workers = MaxWorkersDefault
    /\ progress_callback = NoCallback
    /\ clock = 0
    /\ last_request_at = -1
    /\ previous = NoPrevious
    /\ crawl_df = <<>>
    /\ registry = <<>>
    /\ brand_order = <<>>
    /\ detected_facets = <<>>
    /\ detect_done = FALSE
    /\ first_detected = [set |-> FALSE, facets |-> {}]
    /\ unknown_patterns = [called |-> FALSE, result |-> <<>>]
    /\ custom = [called |-> FALSE]
    /\ auth_codes = <<>>
    /\ authenticated = FALSE
    /\ user_email = None
    /\ auth_timestamp = None
    /\ smtp_configured = FALSE
    /\ now = 0
    /\ sends = 0
    /\ login_call = NoLoginCall
    /\ ai_results = NoResults
    /\ total_cost = 0

\* FacetAnalyzer.analyze_facet on the facet
AnalyzeFacet ==
    /\ facet_status' = analyze_facet(facet)
    /\ UNCHANGED <<weights, breakdown, earlier_total, facet>>
    /\ UNCHANGED <<authVars, verifyVars, detectorVars, loginVars, aiVars>>

\* FacetScorer.score_from_dataframes on the facet
ScoreFromDataframes ==
    /\ weights.ok
    /\ breakdown' = score_facet(weights, SignalsOf(facet))
    /\ earlier_total' =
          (IF breakdown.scored THEN breakdown.total_score ELSE -1)
    /\ UNCHANGED <<weights, facet, facet_status>>
    /\ UNCHANGED <<authVars, verifyVars, detectorVars, loginVars, aiVars>>

FacetsNext == AnalyzeFacet \/ ScoreFromDataframes

----------------------------------------------------------------------------
(* Claims about the facet analysis *)

\* The rule of three conditions: all three give high, two give medium.
ThreeConditions(demand, traffic, live) ==
    LET holding ==
            (IF demand > 1000 THEN 1 ELSE 0)
            + (IF traffic > 100 THEN 1 ELSE 0)
            + (IF live > 0 THEN 1 ELSE 0)
    IN  IF holding = 3 THEN "high"
        ELSE IF holding = 2 THEN "medium" ELSE "low"

\* What may be called the demand and the traffic of a scored facet: any one
\* of its signals, or their sum.
DemandReadings(raw) ==
    {raw.demand_semrush, raw.demand_kp, raw.demand_filters,
     raw.demand_semrush + raw.demand_kp + raw.demand_filters}

TrafficReadings(raw) ==
    {raw.traffic_gsc, raw.traffic_adobe, raw.traffic_gsc + raw.traffic_adobe}

\* The signals of a scored facet that are positive.
PositiveSignals(raw) ==
    {k \in {"demand_semrush", "demand_kp", "traffic_gsc", "traffic_adobe",
            "demand_filters"} : raw[k] > 0}

FacetStatusByThreeConditions ==
    facet_status.analysed =>
        facet_status.confidence =
            ThreeConditions(facet_status.demand_adobe
                              + facet_status.demand_keywords,
                            facet_status.traffic_seo, facet_status.urls_200)

C24_EliminatedFacetScores90 ==
    (/\ facet_status.analysed
     /\ facet_status.urls_200 = 0
     /\ facet_status.urls_404 = 40
     /\ facet_status.demand_adobe + facet_status.demand_keywords = 60000
     /\ facet_status.traffic_seo = 0)
        => /\ facet_status.opportunity_score = 90
           /\ facet_status.recommendation = "evaluate_recreate"

----------------------------------------------------------------------------
(* HTTPVerifier *)

\* A dict is a function on its keys.  A recommendation text is a sequence
\* of pieces [t, v]: a piece of the original text, or the note
\* "URL no disponible (<status>). " that the f-string puts into it.
\* Python's None is "None" for strings and [none |-> TRUE] for
\* http_verified; a missing or empty URL is 0.
DictGet(dict, key, default) == IF key \in DOMAIN dict THEN dict[key] ELSE default
DictSet(dict, key, value) ==
    [k \in DOMAIN dict \cup {key} |-> IF k = key THEN value ELSE dict[k]]

TextPiece(n) == [t |-> "text", v |-> n]
Note(status_code) == [t |-> "url_no_disponible", v |-> status_code]
NoneVerified == [none |-> TRUE]

\* What the network does to one HEAD request.  Responses carry no
\* X-Robots-Tag header and no Location header.  A timeout is a connect
\* timeout, a connection_error a refused or broken connection, and a
\* request_exception an error no request is sent for (an invalid URL).
Outcomes ==
    {[kind |-> "response", status |-> 200],
     [kind |-> "response", status |-> 204],
     [kind |-> "response", status |-> 404],
     [kind |-> "response", status |-> 503],
     [kind |-> "timeout", status |-> 0],
     [kind |-> "connection_error", status |-> 0],
     [kind |-> "request_exception", status |-> 0]}

\* retry_strategy = Retry(total=2, backoff_factor=0.5,
\*                        status_forcelist=[500, 502, 503, 504])
RetryTotal == 2
StatusForcelist == {500, 502, 503, 504}

\* The adapter mounted on the session sends the request again after this
\* outcome, while the retry budget lasts.
Retriable(outcome) ==
    \/ outcome.kind = "response" /\ outcome.status \in StatusForcelist
    \/ outcome.kind \in {"timeout", "connection_error"}

RetryLeft_OneMore(attempts) == attempts <= RetryTotal + 1

\* Whether the budget Retry(total=...) allows one more request after
\* `attempts` requests.
RetryLeft(attempts) == attempts <= RetryTotal

\* What session.head hands to verify_url when no further request follows:
\* a response that is still in the forcelist is raised as RetryError, a
\* connection error as ConnectionError, both of them RequestException.
FinalOutcome(outcome) ==
    IF outcome.kind = "response" /\ outcome.status \in StatusForcelist
    THEN [kind |-> "request_exception", status |-> 0]
    ELSE IF outcome.kind = "connection_error"
    THEN [kind |-> "request_exception", status |-> 0]
    ELSE outcome

\* rate_limit_delay: the unit of the clock
rate_limit_delay == 1

IsOk_Only200(status_code) == status_code = 200

\* is_ok=200 <= status_code < 300
IsOk(status_code) == 200 <= status_code /\ status_code < 300

\* HTTPVerifier.verify_url
verify_url(url, outcome) ==
    IF outcome.kind = "response"
    THEN [url |-> url, status_code |-> outcome.status,
          is_ok |-> IsOk(outcome.status),
          is_redirect |-> outcome.status \in {301, 302, 307, 308},
          redirect_target |-> "None",
          is_indexable |-> outcome.status = 200,
          error |-> "None"]
    ELSE [url |-> url, status_code |-> 0, is_ok |-> FALSE,
          is_redirect |-> FALSE, redirect_target |-> "None",
          is_indexable |-> FALSE,
          error |-> IF outcome.kind = "timeout" THEN "Timeout"
                    ELSE "RequestException"]

NoResult ==
    [url |-> 0, status_code |-> 0, is_ok |-> FALSE, is_redirect |-> FALSE,
     redirect_target |-> "None", is_indexable |-> FALSE, error |-> "None"]

BatchStats_ErrorsNotOk(urls, res) ==
    [total_urls |-> Len(urls),
     verified |-> Len(res),
     ok_count |-> Cardinality({i \in DOMAIN res : res[i].is_ok}),
     redirect_count |-> Cardinality({i \in DOMAIN res : res[i].is_redirect}),
     not_found_count |->
        Cardinality({i \in DOMAIN res : res[i].status_code = 404}),
     error_count |-> Cardinality({i \in DOMAIN res : ~res[i].is_ok}),
     results |-> res]

\* The statistics at the end of HTTPVerifier.verify_batch
BatchStats(urls, res) ==
    [total_urls |-> Len(urls),
     verified |-> Len(res),
     ok_count |-> Cardinality({i \in DOMAIN res : res[i].is_ok}),
     redirect_count |-> Cardinality({i \in DOMAIN res : res[i].is_redirect}),
     not_found_count |->
        Cardinality({i \in DOMAIN res : res[i].status_code = 404}),
     error_count |-> Cardinality({i \in DOMAIN res : res[i].error # "None"}),
     results |-> res]

\* urls = [r.get(url_field) for r in recommendations if r.get(url_field)]
RECURSIVE UrlsOf(_, _)
UrlsOf(h, recs) ==
    IF recs = <<>> THEN <<>>
    ELSE LET url == DictGet(h[Head(recs)], "url", 0)
         IN  (IF url # 0 THEN <<url>> ELSE <<>>) \o UrlsOf(h, Tail(recs))

VerificationMap_ByPosition(res) == [i \in DOMAIN res |-> res[i]]

\* verification_map = {r.url: r for r in batch_result.results}: of several
\* results for one URL the last one stays.
VerificationMap(res) ==
    [u \in {res[i].url : i \in DOMAIN res} |->
        LET last == CHOOSE i \in DOMAIN res :
                       /\ res[i].url = u
                       /\ \A j \in DOMAIN res : res[j].url = u => j <= i
        IN  res[last]]

CopyDict_Alias(h, id) == [heap |-> h, id |-> id]

\* rec.copy(): a new dict object with the same keys and values
CopyDict(h, id) == [heap |-> Append(h, h[id]), id |-> Len(h) + 1]

Annotate_Appended(rec, verification) ==
    Append(DictGet(rec, "recommendation", <<>>), Note(verification.status_code))

\* f"... URL no disponible ({verification.status_code}). {rec.get('recommendation', '')}"
Annotate(rec, verification) ==
    <<Note(verification.status_code)>> \o DictGet(rec, "recommendation", <<>>)

\* One pass of the loop over recommendations: the dict the copy becomes.
AnnotatedCopy(rec, rec_copy, vmap) ==
    LET url == DictGet(rec, "url", 0)
    IN  IF url \in DOMAIN vmap
        THEN LET verification == vmap[url]
                 with_http ==
                    DictSet(rec_copy, "http_verified",
                        [status_code |-> verification.status_code,
                         is_ok |-> verification.is_ok,
                         is_indexable |-> verification.is_indexable,
                         redirect_target |-> verification.redirect_target,
                         error |-> verification.error])
             IN  IF ~verification.is_ok
                 THEN DictSet(DictSet(with_http, "confidence", "LOW"),
                              "recommendation", Annotate(rec, verification))
                 ELSE with_http
        ELSE DictSet(rec_copy, "http_verified", NoneVerified)

\* The loop of verify_recommendations over the input list: the heap after
\* it and the list of copies.
RECURSIVE MergeLoop(_, _, _, _)
MergeLoop(h, recs, vmap, out) ==
    IF recs = <<>> THEN [heap |-> h, out |-> out]
    ELSE LET rec == h[Head(recs)]
             c == CopyDict(h, Head(recs))
             h2 == [c.heap EXCEPT ![c.id] = AnnotatedCopy(rec, c.heap[c.id], vmap)]
         IN  MergeLoop(h2, Tail(recs), vmap, Append(out, c.id))

\* Inputs: recommendation dicts with and without a URL, with and without
\* confidence and text; two of them share URL 1.
RecDicts ==
    {[confidence |-> "HIGH", recommendation |-> <<TextPiece(1)>>],
     [url |-> 1, confidence |-> "HIGH", recommendation |-> <<TextPiece(1)>>],
     [url |-> 2, confidence |-> "MEDIUM", recommendation |-> <<TextPiece(2)>>],
     [url |-> 1]}

\* The caller holds a list of recommendation dicts; no call is under way.
VerifyInit ==
    \E h \in SeqsUpTo(RecDicts, MaxRecs) :
        /\ heap = h
        /\ recommendations = [i \in 1..Len(h) |-> i]
        /\ given = NothingGiven
        /\ pc = "idle"
        /\ futures = <<>>
        /\ results = <<>>
        /\ batch_result = NoBatch
        /\ verified_recommendations = <<>>
        /\ call = NoCall
        /\ max_workers = MaxWorkersDefault
        /\ progress_callback = NoCallback
        /\ clock = 0
        /\ last_request_at = -1
        /\ previous = NoPrevious
        /\ crawl_df = <<>>
        /\ registry = <<>>
        /\ brand_order = <<>>
        /\ detected_facets = <<>>
        /\ detect_done = FALSE
        /\ first_detected = [set |-> FALSE, facets |-> {}]
        /\ unknown_patterns = [called |-> FALSE, result |-> <<>>]
        /\ custom = [called |-> FALSE]
        /\ auth_codes = <<>>
        /\ authenticated = FALSE
        /\ user_email = None
        /\ auth_timestamp = None
        /\ smtp_configured = FALSE
        /\ now = 0
        /\ sends = 0
        /\ login_call = NoLoginCall
        /\ ai_results = NoResults
        /\ total_cost = 0
        /\ crawl = <<>>
        /\ adobe_urls = <<>>
        /\ has_status_col = TRUE
        /\ merged = <<>>
        /\ no_dist_call = NotCalled
        /\ dilution_call = NotCalled
        /\ analysis = NoAnalysis
        /\ weights = NoWeights
        /\ breakdown = NoBreakdown
        /\ earlier_total = -1
        /\ facet = NoFacet
        /\ facet_status = NoFacetStatus

\* executor.submit for every URL: one future per URL, none started.
Submit(urls) ==
    [i \in 1..Len(urls) |->
        [url |-> urls[i], running |-> FALSE, attempts |-> 0, done |-> FALSE,
         collected |-> FALSE, result |-> NoResult]]

\* The callbacks a caller passes to verify_batch: none, one that returns
\* every time, one that raises when the n-th result is reported.
Callbacks ==
    {NoCallback} \cup {[given |-> TRUE, raises_at |-> n] : n \in 0..MaxRecs}

\* verify_recommendations up to the submission of the probes in
\* verify_batch: the URL list, one future per URL.
VerifyRecommendationsStart ==
    \E workers \in {1, MaxWorkersDefault} :
        /\ pc = "idle"
        /\ pc' = "probing"
        /\ call' = [entry |-> "verify_recommendations", run |-> 1]
        /\ max_workers' = workers
        /\ progress_callback' = NoCallback
        /\ given' = [list |-> recommendations, heap |-> heap]
        /\ futures' = Submit(UrlsOf(heap, recommendations))
        /\ results' = <<>>
        /\ clock' = 0
        /\ last_request_at' = -1
        /\ UNCHANGED <<heap, recommendations, batch_result,
                       verified_recommendations, previous>>
        /\ UNCHANGED <<authVars, scoringVars, detectorVars, loginVars, aiVars>>

\* verify_batch called by itself on the URLs of the recommendations, with
\* a progress callback or without, up to the submission of the probes.
VerifyBatchStart ==
    \E callback \in Callbacks :
        /\ pc = "idle"
        /\ pc' = "probing"
        /\ call' = [entry |-> "verify_batch", run |-> 1]
        /\ progress_callback' = callback
        /\ given' = [list |-> recommendations, heap |-> heap]
        /\ futures' = Submit(UrlsOf(heap, recommendations))
        /\ results' = <<>>
        /\ clock' = 0
        /\ last_request_at' = -1
        /\ UNCHANGED <<heap, recommendations, batch_result,
                       verified_recommendations, max_workers, previous>>
        /\ UNCHANGED <<authVars, scoringVars, detectorVars, loginVars, aiVars>>

\* The caller hands the list verify_recommendations returned to
\* verify_recommendations once more.
VerifyOutputAgain ==
    /\ pc = "done"
    /\ call = [entry |-> "verify_recommendations", run |-> 1]
    /\ pc' = "probing"
    /\ call' = [call EXCEPT !.run = 2]
    /\ previous' =
          [out |-> [i \in DOMAIN verified_recommendations |->
                       heap[verified_recommendations[i]]],
           results |-> results]
    /\ recommendations' = verified_recommendations
    /\ given' = [list |-> verified_recommendations, heap |-> heap]
    /\ futures' = Submit(UrlsOf(heap, verified_recommendations))
    /\ results' = <<>>
    /\ clock' = 0
    /\ last_request_at' = -1
    /\ UNCHANGED <<heap, batch_result, verified_recommendations, max_workers,
                   progress_callback>>
    /\ UNCHANGED <<authVars, scoringVars, detectorVars, loginVars, aiVars>>

Running == {i \in DOMAIN futures : futures[i].running}

\* A free worker of the pool takes the next submitted URL and verify_url
\* issues its HEAD request.
ProbeStarts ==
    \E i \in DOMAIN futures :
        /\ pc \in {"probing", "aborting"}
        /\ ~futures[i].running /\ ~futures[i].done
        /\ \A j \in 1..(i - 1) : futures[j].running \/ futures[j].done
        /\ Cardinality(Running) < max_workers
        /\ futures' = [futures EXCEPT ![i].running = TRUE, ![i].attempts = 1]
        /\ last_request_at' = clock
        /\ UNCHANGED <<heap, recommendations, given, pc, results, batch_result,
                       verified_recommendations, call, max_workers,
                       progress_callback, clock, previous>>
        /\ UNCHANGED <<authVars, scoringVars, detectorVars, loginVars, aiVars>>

\* A request of a running probe ends in an outcome the adapter retries:
\* the request is issued again.
RequestRetried ==
    \E i \in DOMAIN futures : \E outcome \in Outcomes :
        /\ pc \in {"probing", "aborting"}
        /\ futures[i].running
        /\ Retriable(outcome) /\ RetryLeft(futures[i].attempts)
        /\ futures' = [futures EXCEPT ![i].attempts = @ + 1]
        /\ last_request_at' = clock
        /\ UNCHANGED <<heap, recommendations, given, pc, results, batch_result,
                       verified_recommendations, call, max_workers,
                       progress_callback, clock, previous>>
        /\ UNCHANGED <<authVars, scoringVars, detectorVars, loginVars, aiVars>>

\* The call that follows the first one is followed on a network that
\* gives every URL the result the first call merged for it.
AnswersAsBefore(url, result) ==
    call.run = 2 =>
        \E k \in DOMAIN previous.results :
            /\ previous.results[k].url = url
            /\ \A j \in DOMAIN previous.results :
                  previous.results[j].url = url => j <= k
            /\ result = previous.results[k]

\* A worker runs verify_url for one submitted URL to its end.
ProbeCompletes ==
    \E i \in DOMAIN futures : \E outcome \in Outcomes :
        /\ pc \in {"probing", "aborting"}
        /\ futures[i].running
        /\ ~(Retriable(outcome) /\ RetryLeft(futures[i].attempts))
        /\ AnswersAsBefore(futures[i].url,
                           verify_url(futures[i].url, FinalOutcome(outcome)))
        /\ futures' = [futures EXCEPT ![i].running = FALSE, ![i].attempts = 0,
                         ![i].done = TRUE,
                         ![i].result =
                            verify_url(futures[i].url, FinalOutcome(outcome))]
        /\ UNCHANGED <<heap, recommendations, given, pc, results, batch_result,
                       verified_recommendations, call, max_workers,
                       progress_callback, clock, last_request_at,
                       previous>>
        /\ UNCHANGED <<authVars, scoringVars, detectorVars, loginVars, aiVars>>

\* One turn of the as_completed loop: a finished future's result is
\* appended, the callback is told, and the loop sleeps rate_limit_delay.
\* An exception of the callback leaves the loop.  The clock counts the
\* time the loop has slept; the workers go on while it sleeps.
CollectResult ==
    \E i \in DOMAIN futures :
        /\ pc = "probing"
        /\ futures[i].done /\ ~futures[i].collected
        /\ results' = Append(results, futures[i].result)
        /\ futures' = [futures EXCEPT ![i].collected = TRUE]
        /\ IF progress_callback.given
              /\ progress_callback.raises_at = Len(results) + 1
           THEN pc' = "aborting" /\ clock' = clock
           ELSE pc' = pc /\ clock' = clock + rate_limit_delay
        /\ UNCHANGED <<heap, recommendations, given, batch_result,
                       verified_recommendations, call, max_workers,
                       progress_callback, last_request_at, previous>>
        /\ UNCHANGED <<authVars, scoringVars, detectorVars, loginVars, aiVars>>

\* The exception leaves the with block, which waits for every submitted
\* probe, and then verify_batch: its results list is gone with it.
ExceptionLeaves ==
    /\ pc = "aborting"
    /\ \A i \in DOMAIN futures : futures[i].done
    /\ pc' = "raised"
    /\ results' = <<>>
    /\ UNCHANGED <<heap, recommendations, given, futures, batch_result,
                   verified_recommendations, call, max_workers,
                   progress_callback, clock, last_request_at, previous>>
    /\ UNCHANGED <<authVars, scoringVars, detectorVars, loginVars, aiVars>>

\* as_completed is exhausted: verify_batch, called by itself, returns its
\* statistics.
VerifyBatchReturns ==
    /\ pc = "probing"
    /\ call.entry = "verify_batch"
    /\ \A i \in DOMAIN futures : futures[i].collected
    /\ pc' = "done"
    /\ batch_result' =
          BatchStats([i \in DOMAIN futures |-> futures[i].url], results)
    /\ UNCHANGED <<heap, recommendations, given, futures, results,
                   verified_recommendations, call, max_workers,
                   progress_callback, clock, last_request_at, previous>>
    /\ UNCHANGED <<authVars, scoringVars, detectorVars, loginVars, aiVars>>

\* as_completed is exhausted: verify_batch returns its statistics and
\* verify_recommendations merges the results into copies.
VerifyRecommendationsFinish ==
    /\ pc = "probing"
    /\ call.entry = "verify_recommendations"
    /\ \A i \in DOMAIN futures : futures[i].collected
    /\ pc' = "done"
    /\ batch_result' =
          BatchStats([i \in DOMAIN futures |-> futures[i].url], results)
    /\ LET m == MergeLoop(heap, recommendations, VerificationMap(results), <<>>)
       IN  /\ heap' = m.heap
           /\ verified_recommendations' = m.out
    /\ UNCHANGED <<recommendations, given, futures, results, call,
                   max_workers, progress_callback, clock, last_request_at, previous>>
    /\ UNCHANGED <<authVars, scoringVars, detectorVars, loginVars, aiVars>>

VerifyNext ==
    \/ VerifyRecommendationsStart
    \/ VerifyBatchStart
    \/ VerifyOutputAgain
    \/ ProbeStarts
    \/ RequestRetried
    \/ ProbeCompletes
    \/ CollectResult
    \/ ExceptionLeaves
    \/ VerifyBatchReturns
    \/ VerifyRecommendationsFinish

----------------------------------------------------------------------------
(* Claims about live verification *)

\* verify_recommendations has returned its list.
Merged == pc = "done" /\ call.entry = "verify_recommendations"

\* The result merged into the recommendation at position i of the input:
\* the last collected result for its URL.
KeptResult(i) ==
    LET url == DictGet(given.heap[given.list[i]], "url", 0)
        res == batch_result.results
        last == CHOOSE k \in DOMAIN res :
                   /\ res[k].url = url
                   /\ \A j \in DOMAIN res : res[j].url = url => j <= k
    IN  res[last]
HasResult(i) ==
    \E k \in DOMAIN batch_result.results :
        batch_result.results[k].url = DictGet(given.heap[given.list[i]], "url", 0)
ProbeFailed(r) ==
    ~(r.status_code >= 200 /\ r.status_code <= 299) \/ r.error # "None"
SameEntry(a, b, key) ==
    /\ (key \in DOMAIN a) = (key \in DOMAIN b)
    /\ key \in DOMAIN a => a[key] = b[key]

\* C9 (as stated): a recommendation whose URL's probe was non-2xx or failed
\* has confidence LOW and its original text with the unavailability note
\* appended; one whose probe was 2xx keeps confidence and text.
C9_NoteAppended ==
    Merged =>
        \A i \in DOMAIN given.list : HasResult(i) =>
            LET rec == given.heap[given.list[i]]
                out == heap[verified_recommendations[i]]
                r == KeptResult(i)
            IN  IF ProbeFailed(r)
                THEN /\ out["confidence"] = "LOW"
                     /\ out["recommendation"] =
                           DictGet(rec, "recommendation", <<>>)
                           \o <<Note(r.status_code)>>
                ELSE /\ SameEntry(rec, out, "confidence")
                     /\ SameEntry(rec, out, "recommendation")

\* C9 (amended): a recommendation whose URL's probe was non-2xx or failed
\* has confidence LOW and its original text, whole, after the
\* unavailability note (the note comes first); one whose probe was 2xx
\* keeps confidence and text.
C9_NotePrepended ==
    Merged =>
        \A i \in DOMAIN given.list : HasResult(i) =>
            LET rec == given.heap[given.list[i]]
                out == heap[verified_recommendations[i]]
                r == KeptResult(i)
            IN  IF ProbeFailed(r)
                THEN /\ out["confidence"] = "LOW"
                     /\ out["recommendation"] =
                           <<Note(r.status_code)>>
                           \o DictGet(rec, "recommendation", <<>>)
                ELSE /\ SameEntry(rec, out, "confidence")
                     /\ SameEntry(rec, out, "recommendation")

C9_Witness ==
    /\ Merged
    /\ \E i \in DOMAIN given.list :
          /\ HasResult(i)
          /\ KeptResult(i).status_code = 404
          /\ DictGet(given.heap[given.list[i]], "confidence", "") = "HIGH"
          /\ DictGet(given.heap[given.list[i]], "recommendation", <<>>) # <<>>
    /\ \E i \in DOMAIN given.list :
          /\ HasResult(i)
          /\ KeptResult(i).status_code = 204

\* C10: verify_recommendations leaves the input list and every input dict
\* as they were, and returns a new list with one new dict per input
\* recommendation, in input order, each a copy of its input apart from the
\* keys http_verified, confidence and recommendation.
C10_InputUnchanged ==
    pc # "idle" =>
        /\ recommendations = given.list
        /\ \A id \in DOMAIN given.heap : heap[id] = given.heap[id]
        /\ Merged =>
              /\ Len(verified_recommendations) = Len(given.list)
              /\ \A i \in DOMAIN verified_recommendations :
                    LET out_id == verified_recommendations[i]
                        rec == given.heap[given.list[i]]
                    IN  /\ out_id \notin DOMAIN given.heap
                        /\ \A j \in DOMAIN verified_recommendations :
                              verified_recommendations[j] = out_id => j = i
                        /\ "http_verified" \in DOMAIN heap[out_id]
                        /\ \A key \in DOMAIN rec : key \in DOMAIN heap[out_id]
                        /\ \A key \in DOMAIN rec \ {"http_verified", "confidence",
                                                    "recommendation"} :
                              heap[out_id][key] = rec[key]

C10_Witness ==
    /\ Merged
    /\ Len(given.list) = 2
    /\ \E i \in DOMAIN given.list : ~HasResult(i)
    /\ \E i \in DOMAIN given.list :
          HasResult(i) /\ ProbeFailed(KeptResult(i))

----------------------------------------------------------------------------
(* Claims about the concurrent batch *)

\* Every probe of a URL came to the same result: the outcome of a probe is
\* a function of its URL.
OutcomeByUrl ==
    \A i, j \in DOMAIN futures :
        futures[i].url = futures[j].url => futures[i].result = futures[j].result

\* The result of each submitted URL, whatever the order of collection.
ResultByUrl ==
    [u \in {futures[i].url : i \in DOMAIN futures} |->
        futures[CHOOSE i \in DOMAIN futures : futures[i].url = u].result]

\* C11: when the outcome of a probe is a function of its URL, the list
\* verify_recommendations returns is the one the merge by URL gives, in
\* every order in which the probes complete and are collected, also when
\* one URL occurs in several recommendations.
C11_OrderIndependent ==
    Merged /\ OutcomeByUrl =>
        LET m == MergeLoop(given.heap, given.list, ResultByUrl, <<>>)
        IN  /\ Len(verified_recommendations) = Len(m.out)
            /\ \A i \in DOMAIN verified_recommendations :
                  heap[verified_recommendations[i]] = m.heap[m.out[i]]

C11_Witness ==
    /\ Merged /\ OutcomeByUrl
    /\ Len(futures) = 2
    /\ futures[1].url # futures[2].url
    /\ results[1].url = futures[2].url
    /\ results[1].is_ok /\ ~results[2].is_ok

\* What C12 says of a returned batch.
OneResultPerUrl ==
    /\ batch_result.total_urls = Len(UrlsOf(given.heap, given.list))
    /\ batch_result.verified = batch_result.total_urls
    /\ \A u \in {futures[i].url : i \in DOMAIN futures} :
          Cardinality({i \in DOMAIN futures : futures[i].url = u})
             = Cardinality({k \in DOMAIN batch_result.results :
                               batch_result.results[k].url = u})
    /\ \A k \in DOMAIN batch_result.results :
          LET r == batch_result.results[k]
          IN  /\ \E i \in DOMAIN futures : futures[i].result = r
              /\ r.status_code = 0 => r.error # "None"
              /\ r.error # "None" => ~r.is_ok
    /\ batch_result.error_count =
          Cardinality({k \in DOMAIN batch_result.results :
                          batch_result.results[k].error # "None"})

\* C12: a batch whose callback does not raise returns in the end, with one
\* result per submitted URL (verified = total_urls); a probe that times
\* out or fails yields a result with error set and is_ok false and the
\* batch goes on, and error_count is the number of results with error set.
C12_BatchReturnsAll ==
    /\ [](pc = "done" => OneResultPerUrl)
    /\ [](progress_callback.raises_at = 0 => pc \notin {"aborting", "raised"})
    /\ (pc = "probing" /\ progress_callback.raises_at = 0) ~> (pc = "done")

C12_Witness ==
    /\ pc = "done"
    /\ call.entry = "verify_batch"
    /\ batch_result.total_urls = 2
    /\ batch_result.error_count = 1
    /\ batch_result.not_found_count = 1
    /\ \E k \in DOMAIN batch_result.results :
          batch_result.results[k].error = "Timeout"

\* C13 (as stated): verify_recommendations applied to its own output, on a
\* network that answers as before, returns a list equal to that output in
\* confidence, recommendation text and http_verified.
C13_Idempotent ==
    Merged /\ call.run = 2 =>
        /\ Len(verified_recommendations) = Len(previous.out)
        /\ \A i \in DOMAIN verified_recommendations :
              LET out == heap[verified_recommendations[i]]
              IN  /\ SameEntry(out, previous.out[i], "confidence")
                  /\ SameEntry(out, previous.out[i], "recommendation")
                  /\ SameEntry(out, previous.out[i], "http_verified")

\* C14 (as stated): a probe starts its request only when rate_limit_delay
\* has passed since the last request was issued.
C14_Throttled ==
    [][ProbeStarts =>
          \/ last_request_at = -1
          \/ clock - last_request_at >= rate_limit_delay]_vars

C16_PartialResultsDelivered ==
    pc = "raised" =>
        \A i \in DOMAIN futures : futures[i].collected =>
            \E k \in DOMAIN batch_result.results :
                batch_result.results[k] = futures[i].result

----------------------------------------------------------------------------
(* FacetDetector *)

\* A URL is the list of its path segments, each a list of the tokens that
\* '-' separates, with or without a slash at its end; n stands for a
\* numeric first segment that tells the URLs of one shape apart.  All
\* text is lower case.  The crawl carries both the 'Dirección' and the
\* 'Código de respuesta' column, and every row has a URL.
Url(n, segs, slash) == [n |-> n, segs |-> segs, slash |-> slash]

\* if count > 5
BrandMinUrls == 5
\* found_brands[:30]
TopBrands == 30
\* .head(5)
FacetExamples == 5
\* if data['count'] > 10
UnknownMinCount == 10
\* if len(all_segments[seg]['urls']) < 3
UnknownExamples == 3
\* [:20]
TopUnknown == 20

\* FacetDetector.KNOWN_BRANDS
KNOWN_BRANDS ==
    [tech |-> <<"apple", "samsung", "xiaomi", "huawei", "oppo", "realme",
                "motorola", "google", "honor", "poco", "nothing", "oneplus",
                "sony", "lg", "asus", "lenovo", "hp", "dell", "acer", "msi",
                "razer", "corsair", "logitech">>,
     appliances |-> <<"bosch", "siemens", "balay", "lg", "samsung",
                      "whirlpool", "electrolux", "aeg", "miele", "candy",
                      "beko", "haier", "hisense", "teka", "zanussi">>,
     hvac |-> <<"daikin", "mitsubishi", "fujitsu", "lg", "samsung",
                "panasonic", "hitachi", "carrier", "toshiba", "gree", "haier",
                "hisense">>,
     tools |-> <<"bosch", "makita", "dewalt", "milwaukee", "hikoki", "metabo",
                 "black-decker", "stanley", "ryobi", "einhell", "worx">>]

\* [b for brands in self.KNOWN_BRANDS.values() for b in brands]
BrandList ==
    KNOWN_BRANDS.tech \o KNOWN_BRANDS.appliances \o KNOWN_BRANDS.hvac
    \o KNOWN_BRANDS.tools

\* The list without the repetitions of an element after its first place.
Distinct(s) ==
    LET firsts == {i \in DOMAIN s : \A j \in 1..(i - 1) : s[j] # s[i]}
    IN  [k \in 1..Cardinality(firsts) |->
            s[CHOOSE i \in firsts :
                  Cardinality({j \in firsts : j < i}) = k - 1]]

\* A Python list: its elements are values, computed when it is built.
List(s) == SubSeq(s, 1, Len(s))

Reverse(s) == List([i \in 1..Len(s) |-> s[Len(s) + 1 - i]])

\* all_brands is a set of strings: the order in which `for brand in
\* all_brands` goes through it is fixed within one process and differs
\* between processes (string hashing is seeded per process).  Two of the
\* orders a process can have.
BrandOrders == {List(Distinct(BrandList)), Reverse(Distinct(BrandList))}

\* The tokens of the path segment that spells a brand.
BrandTokens(brand) ==
    IF brand = "black-decker" THEN <<"black", "decker">> ELSE <<brand>>

FollowedBySlash(url, i) == i < Len(url.segs) \/ url.slash

\* re.search(f'/{brand}(/|$)', url.lower())
BrandSearch(brand, url) ==
    \E i \in DOMAIN url.segs : url.segs[i] = BrandTokens(brand)

\* f'/{b}/' in u.lower()
BrandInPath(brand, url) ==
    \E i \in DOMAIN url.segs :
        url.segs[i] = BrandTokens(brand) /\ FollowedBySlash(url, i)

\* Whether the text of a token has the word in it: the word itself, or a
\* longer word around it.
Contains(token, word) ==
    token = word \/ <<token, word>> \in {<<"aluminio", "mini">>}

\* A pattern expression: a plain word, a word between the delimiters the
\* registry uses ('/w/', '/w$', '-w-', '-w$'), '/brand/', an expression
\* that does not compile, or the empty string.
Word(w) == [form |-> "word", w |-> w]
Delimited(form, w) == [form |-> form, w |-> w]
BrandPattern(brand) == [form |-> "/brand/", w |-> brand]
NotCompiling == [form |-> "invalid", w |-> "("]
EmptyPattern == [form |-> "empty", w |-> ""]

\* An excerpt of FacetDetector.GENERIC_PATTERNS, in its order.
GENERIC_PATTERNS ==
    << [facet_id |-> "brand", category |-> "marca", patterns |-> <<>>,
        dynamic |-> TRUE],
       [facet_id |-> "connectivity_5g", category |-> "conectividad",
        patterns |-> <<Delimited("/w/", "5g"), Delimited("/w$", "5g"),
                       Delimited("-w-", "5g"), Delimited("-w$", "5g")>>,
        dynamic |-> FALSE],
       [facet_id |-> "price_offer", category |-> "precio",
        patterns |-> <<Word("oferta"), Word("descuento"), Word("promocion"),
                       Word("outlet"), Word("liquidacion")>>,
        dynamic |-> FALSE],
       [facet_id |-> "type_format", category |-> "tipo",
        patterns |-> <<Word("portatil"), Word("sobremesa"), Word("torre"),
                       Word("compacto"), Word("mini"), Word("profesional")>>,
        dynamic |-> FALSE] >>

\* The same registry after an edit that left expressions in it that do
\* not compile or are empty.
EditedPatterns ==
    << GENERIC_PATTERNS[1],
       [GENERIC_PATTERNS[2] EXCEPT !.patterns = <<NotCompiling, EmptyPattern>>],
       [GENERIC_PATTERNS[3] EXCEPT !.patterns =
            <<NotCompiling>> \o @ \o <<EmptyPattern>>],
       GENERIC_PATTERNS[4] >>

\* validate_regex_pattern, of one expression
validate_regex_pattern(p) == p.form \notin {"invalid", "empty"}

\* validate_regex_pattern, of the expressions joined by '|': the join of
\* nothing is empty, and one part that does not compile spoils the whole.
validate_joined(parts) ==
    /\ \E i \in DOMAIN parts : parts[i].form # "empty"
    /\ \A i \in DOMAIN parts : parts[i].form # "invalid"

\* re.search(p, url) for one expression
Matches(p, url) ==
    CASE p.form = "word" ->
            \E i \in DOMAIN url.segs : \E j \in DOMAIN url.segs[i] :
                Contains(url.segs[i][j], p.w)
      [] p.form = "/w/" ->
            \E i \in DOMAIN url.segs :
                url.segs[i] = <<p.w>> /\ FollowedBySlash(url, i)
      [] p.form = "/w$" ->
            /\ url.segs # <<>>
            /\ url.segs[Len(url.segs)] = <<p.w>>
            /\ ~url.slash
      [] p.form = "-w-" ->
            \E i \in DOMAIN url.segs : \E j \in DOMAIN url.segs[i] :
                1 < j /\ j < Len(url.segs[i]) /\ url.segs[i][j] = p.w
      [] p.form = "-w$" ->
            /\ url.segs # <<>>
            /\ LET last == url.segs[Len(url.segs)]
               IN  Len(last) > 1 /\ last[Len(last)] = p.w
            /\ ~url.slash
      [] p.form = "/brand/" -> BrandInPath(p.w, url)
      [] p.form = "empty" -> TRUE
      [] OTHER -> FALSE

\* str.contains(pattern, regex=True) with the joined expression
MatchesAny(parts, url) == \E i \in DOMAIN parts : Matches(parts[i], url)

\* Python's sorted(..., key=count, reverse=True): stable and descending,
\* so an entry goes after those with a greater count and after those with
\* the same count that stood before it.
SortedByCount(s) ==
    LET place == List([i \in DOMAIN s |->
                    1 + Cardinality({j \in DOMAIN s :
                           \/ s[j].count > s[i].count
                           \/ s[j].count = s[i].count /\ j < i})])
    IN  List([k \in DOMAIN s |-> s[CHOOSE i \in DOMAIN s : place[i] = k]])

CountUrls(urls, brand) ==
    Cardinality({i \in DOMAIN urls : BrandSearch(brand, urls[i])})

\* FacetDetector._detect_brands: the brands found in more than 5 URLs, in
\* the order of the set, then sorted by the number of URLs with '/brand/'.
detect_brands(urls, order) ==
    LET found == SelectSeq(order, LAMBDA b : CountUrls(urls, b) > BrandMinUrls)
        keyed == List([i \in DOMAIN found |->
                    [brand |-> found[i],
                     count |-> Cardinality({k \in DOMAIN urls :
                                              BrandInPath(found[i], urls[k])})]])
        sorted == SortedByCount(keyed)
    IN  List([i \in DOMAIN sorted |-> sorted[i].brand])

\* FacetDetector._add_facet_if_found: the list of facets after it.
add_facet_if_found(facets, rows, facet_id, parts) ==
    IF ~validate_joined(parts) THEN facets
    ELSE LET urls_200 == SelectSeq(rows, LAMBDA r :
                            r.status = 200 /\ MatchesAny(parts, r.url))
             urls_404 == SelectSeq(rows, LAMBDA r :
                            r.status = 404 /\ MatchesAny(parts, r.url))
             from == IF Len(urls_200) > 0 THEN urls_200 ELSE urls_404
         IN  IF Len(urls_200) > 0 \/ Len(urls_404) > 0
             THEN Append(facets,
                     [facet_id |-> facet_id,
                      pattern |-> parts,
                      url_examples |->
                         List([i \in 1..Min2(FacetExamples, Len(from)) |->
                                  from[i].url]),
                      url_count_200 |-> Len(urls_200),
                      url_count_404 |-> Len(urls_404),
                      is_custom |-> FALSE])
             ELSE facets

ValidPatterns_Unfiltered(patterns) == patterns

\* valid_patterns of detect_all
ValidPatterns(patterns) == SelectSeq(patterns, validate_regex_pattern)

\* The loop of detect_all over the registry.
RECURSIVE GenericLoop(_, _, _)
GenericLoop(facets, rows, groups) ==
    IF groups = <<>> THEN facets
    ELSE LET config == Head(groups)
             valid_patterns == ValidPatterns(config.patterns)
             next == IF config.dynamic \/ valid_patterns = <<>> THEN facets
                     ELSE add_facet_if_found(facets, rows, config.facet_id,
                                             valid_patterns)
         IN  GenericLoop(next, rows, Tail(groups))

\* FacetDetector.detect_all: the new value of detected_facets.
detect_all(rows, groups, order) ==
    LET urls == List([i \in DOMAIN rows |-> rows[i].url])
        found_brands == detect_brands(urls, order)
        top == Take(found_brands, TopBrands)
        brand_patterns == List([i \in DOMAIN top |-> BrandPattern(top[i])])
        with_brand ==
            IF found_brands # <<>>
            THEN add_facet_if_found(<<>>, rows, "brand", brand_patterns)
            ELSE <<>>
    IN  GenericLoop(with_brand, rows, groups)

\* The tokens of a URL that detect_unknown_patterns counts, in the order
\* of the text: longer than 2 and alphabetic.
RECURSIVE Flatten(_)
Flatten(ss) == IF ss = <<>> THEN <<>> ELSE Head(ss) \o Flatten(Tail(ss))

\* len(seg) > 2 and seg.isalpha(), for the tokens the URLs here are made of
IsCounted(token) == token \notin {"lg", "hp", "5g"}

CountedTokens(url) == SelectSeq(Flatten(url.segs), IsCounted)

\* An occurrence is the t-th counted token of the k-th URL; the loop over
\* self.urls meets the occurrences in the order of k, then t.
Occurrences(urls) ==
    UNION {LET tokens == CountedTokens(urls[k])
           IN  {[k |-> k, t |-> t, segment |-> tokens[t]] :
                   t \in DOMAIN tokens} : k \in DOMAIN urls}

Earlier(a, b) == a.k < b.k \/ (a.k = b.k /\ a.t < b.t)

\* The loop over self.urls: all_segments, as the list of its entries in
\* insertion order.  A token is entered at its first occurrence, counts
\* its occurrences and keeps the URLs of the first three.
AllSegments(urls) ==
    LET occurrences == Occurrences(urls)
        entries ==
            {LET of == {o \in occurrences : o.segment = seg}
                 n == Min2(UnknownExamples, Cardinality(of))
             IN  [segment |-> seg,
                  count |-> Cardinality(of),
                  first |-> CHOOSE o \in of : \A x \in of : x = o \/ Earlier(o, x),
                  example_urls |->
                     List([e \in 1..n |->
                             urls[(CHOOSE o \in of :
                                      Cardinality({x \in of : Earlier(x, o)})
                                         = e - 1).k]])] :
                seg \in {o.segment : o \in occurrences}}
    IN  List([i \in 1..Cardinality(entries) |->
                LET e == CHOOSE x \in entries :
                            Cardinality({y \in entries :
                                            Earlier(y.first, x.first)}) = i - 1
                IN  [segment |-> e.segment, count |-> e.count,
                     example_urls |-> e.example_urls]])

\* re.search(p, segment) for a known pattern and one token: a delimited
\* expression needs a '/' or a '-', which no token has.
KnownBy(p, segment) ==
    /\ p.form = "word"
    /\ Contains(segment, p.w)

IsKnown(groups, segment) ==
    \/ \E g \in DOMAIN groups : \E k \in DOMAIN groups[g].patterns :
          KnownBy(groups[g].patterns[k], segment)
    \/ \E b \in DOMAIN BrandList : Contains(segment, BrandList[b])

\* FacetDetector.detect_unknown_patterns
detect_unknown_patterns(urls, groups) ==
    LET all_segments == AllSegments(urls)
        unknown == SelectSeq(all_segments, LAMBDA e :
                       e.count > UnknownMinCount /\ ~IsKnown(groups, e.segment))
    IN  Take(SortedByCount(unknown), TopUnknown)

\* FacetDetector.add_custom_facet: what it returns and the list after it.
add_custom_facet(facets, rows, name, p) ==
    IF ~validate_regex_pattern(p)
    THEN [returned |-> "None", facets |-> facets]
    ELSE LET urls_200 == SelectSeq(rows, LAMBDA r :
                            r.status = 200 /\ Matches(p, r.url))
             urls_404 == SelectSeq(rows, LAMBDA r :
                            r.status = 404 /\ Matches(p, r.url))
         IN  [returned |-> name,
              facets |-> Append(facets,
                  [facet_id |-> name,
                   pattern |-> <<p>>,
                   url_examples |->
                      List([i \in 1..Min2(FacetExamples, Len(urls_200)) |->
                               urls_200[i].url]),
                   url_count_200 |-> Len(urls_200),
                   url_count_404 |-> Len(urls_404),
                   is_custom |-> TRUE])]

\* ---- Corpora ----

\* The URLs of the small crawls: a known word next to an unknown one, a
\* word inside a longer one, and a delimited token at the end of the path.
SmallUrls ==
    {Url(0, << <<"cat">>, <<"oferta", "cocina">> >>, FALSE),
     Url(0, << <<"cat">>, <<"aluminio">> >>, FALSE),
     Url(0, << <<"cat">>, <<"5g">> >>, FALSE)}

SmallCorpora ==
    SeqsUpTo({[url |-> u, status |-> s] : u \in SmallUrls, s \in {200, 404}},
             MaxRows)

\* Crawls of n URLs of one shape, the first of them gone (404).
Shapes ==
    {[segs |-> << <<"cat">>, <<"apple">> >>, slash |-> TRUE],
     [segs |-> << <<"cat">>, <<"apple">> >>, slash |-> FALSE],
     [segs |-> << <<"cocina", "gas">>, <<"cocina">> >>, slash |-> TRUE],
     [segs |-> << <<"cat">>, <<"oferta", "cocina">> >>, slash |-> FALSE]}

RepeatedCorpora ==
    {[i \in 1..n |->
        [url |-> Url(i, shape.segs, shape.slash),
         status |-> IF i = 1 THEN 404 ELSE 200]] :
        shape \in Shapes,
        n \in {BrandMinUrls, BrandMinUrls + 1, UnknownMinCount,
               UnknownMinCount + 1}}

\* A crawl with one more brand than the brand facet takes, each in as
\* many URLs as the others, just above the threshold; the URLs of the
\* first brand are live, those of the others gone.
ManyBrands == Take(Distinct(BrandList), TopBrands + 1)

ManyBrandsCorpus ==
    [k \in 1..(Len(ManyBrands) * (BrandMinUrls + 1)) |->
        LET b == ((k - 1) \div (BrandMinUrls + 1)) + 1
        IN  [url |-> Url(k, << <<"cat">>, BrandTokens(ManyBrands[b]) >>, TRUE),
             status |-> IF b = 1 THEN 200 ELSE 404]]

\* A crawl in which one more unknown word than detect_unknown_patterns
\* returns is in every URL, and a last word in all URLs but one.
UnknownWords ==
    <<"cocina", "hogar", "jardin", "oficina", "salon", "bano", "dormitorio",
      "terraza", "garaje", "piscina", "camping", "viaje", "deporte", "musica",
      "cine", "foto", "video", "juego", "libro", "papel", "tinta">>

ManyWordsCorpus ==
    [k \in 1..(UnknownMinCount + 2) |->
        [url |-> Url(k, << IF k = 1 THEN UnknownWords
                           ELSE UnknownWords \o <<"regalo">> >>, FALSE),
         status |-> 200]]

Corpora ==
    SmallCorpora \cup RepeatedCorpora \cup {ManyBrandsCorpus, ManyWordsCorpus}

\* The expressions a user types for a custom facet.
CustomPatterns == {Word("cocina"), NotCompiling, EmptyPattern}

NoDetection == [set |-> FALSE, facets |-> {}]
NoUnknown == [called |-> FALSE, result |-> <<>>]
NoCustom == [called |-> FALSE, pattern |-> EmptyPattern, returned |-> "None",
             before |-> <<>>]

\* The facet ids of detect_all with their counts.
Summary(facets) ==
    {[facet_id |-> facets[i].facet_id,
      url_count_200 |-> facets[i].url_count_200,
      url_count_404 |-> facets[i].url_count_404] :
        i \in {j \in DOMAIN facets : ~facets[j].is_custom}}

\* FacetDetector.__init__ on a crawl, in a process with its order of the
\* brand set.
DetectorInit ==
    \E rows \in Corpora : \E groups \in {GENERIC_PATTERNS, EditedPatterns} :
    \E order \in BrandOrders :
        /\ crawl_df = rows
        /\ registry = groups
        /\ brand_order = order
        /\ detected_facets = <<>>
        /\ detect_done = FALSE
        /\ first_detected = NoDetection
        /\ unknown_patterns = NoUnknown
        /\ custom = NoCustom
        /\ auth_codes = <<>>
        /\ authenticated = FALSE
        /\ user_email = None
        /\ auth_timestamp = None
        /\ smtp_configured = FALSE
        /\ now = 0
        /\ sends = 0
        /\ login_call = NoLoginCall
        /\ ai_results = NoResults
        /\ total_cost = 0
        /\ crawl = <<>>
        /\ adobe_urls = <<>>
        /\ has_status_col = TRUE
        /\ merged = <<>>
        /\ no_dist_call = NotCalled
        /\ dilution_call = NotCalled
        /\ analysis = NoAnalysis
        /\ weights = NoWeights
        /\ breakdown = NoBreakdown
        /\ earlier_total = -1
        /\ facet = NoFacet
        /\ facet_status = NoFacetStatus
        /\ heap = <<>>
        /\ recommendations = <<>>
        /\ given = NothingGiven
        /\ pc = "idle"
        /\ futures = <<>>
        /\ results = <<>>
        /\ batch_result = NoBatch
        /\ verified_recommendations = <<>>
        /\ call = NoCall
        /\ max_workers = MaxWorkersDefault
        /\ progress_callback = NoCallback
        /\ clock = 0
        /\ last_request_at = -1
        /\ previous = NoPrevious

\* detect_all starts from an empty list, so a custom facet added before
\* it is gone after it.
DetectAll ==
    /\ detected_facets' = detect_all(crawl_df, registry, brand_order)
    /\ custom' = NoCustom
    /\ detect_done' = TRUE
    /\ first_detected' =
          IF first_detected.set THEN first_detected
          ELSE [set |-> TRUE,
                facets |-> Summary(detect_all(crawl_df, registry, brand_order))]
    /\ UNCHANGED <<crawl_df, registry, brand_order, unknown_patterns>>
    /\ UNCHANGED <<authVars, scoringVars, verifyVars, loginVars, aiVars>>

\* Orders of the same rows: the other way round and, for a short crawl,
\* with its first two rows exchanged.
Reorderings(rows) ==
    {Reverse(rows)}
    \cup (IF 2 <= Len(rows) /\ Len(rows) <= MaxRows + 1
          THEN {[rows EXCEPT ![1] = rows[2], ![2] = rows[1]]}
          ELSE {})

\* A detector is made for the same crawl with its rows in another order.
ReorderRows ==
    \E rows \in Reorderings(crawl_df) :
        /\ rows # crawl_df
        /\ crawl_df' = rows
        /\ detected_facets' = <<>>
        /\ detect_done' = FALSE
        /\ unknown_patterns' = NoUnknown
        /\ custom' = NoCustom
        /\ UNCHANGED <<registry, brand_order, first_detected>>
        /\ UNCHANGED <<authVars, scoringVars, verifyVars, loginVars, aiVars>>

\* The program is started again and a detector is made for the same crawl.
NewProcess ==
    \E order \in BrandOrders :
        /\ order # brand_order
        /\ brand_order' = order
        /\ detected_facets' = <<>>
        /\ detect_done' = FALSE
        /\ unknown_patterns' = NoUnknown
        /\ custom' = NoCustom
        /\ UNCHANGED <<crawl_df, registry, first_detected>>
        /\ UNCHANGED <<authVars, scoringVars, verifyVars, loginVars, aiVars>>

DetectUnknownPatterns ==
    /\ unknown_patterns' =
          [called |-> TRUE,
           result |-> detect_unknown_patterns(
                         [i \in DOMAIN crawl_df |-> crawl_df[i].url], registry)]
    /\ UNCHANGED <<crawl_df, registry, brand_order, detected_facets,
                   detect_done, first_detected, custom>>
    /\ UNCHANGED <<authVars, scoringVars, verifyVars, loginVars, aiVars>>

AddCustomFacet ==
    \E p \in CustomPatterns :
        /\ Cardinality({i \in DOMAIN detected_facets :
                           detected_facets[i].is_custom}) < MaxCustom
        /\ LET r == add_custom_facet(detected_facets, crawl_df, "custom_x", p)
           IN  /\ detected_facets' = r.facets
               /\ custom' = [called |-> TRUE, pattern |-> p,
                             returned |-> r.returned, before |-> detected_facets]
        /\ UNCHANGED <<crawl_df, registry, brand_order, detect_done,
                       first_detected, unknown_patterns>>
        /\ UNCHANGED <<authVars, scoringVars, verifyVars, loginVars, aiVars>>

DetectorNext ==
    \/ DetectAll
    \/ ReorderRows
    \/ NewProcess
    \/ DetectUnknownPatterns
    \/ AddCustomFacet

----------------------------------------------------------------------------
(* Claims about the FacetDetector *)

\* C17: detect_all is a function of the crawl as a multiset of rows: after
\* any reordering of the rows, on the same detector or a fresh one, it
\* returns the facet ids of the first detection with the same
\* url_count_200 and url_count_404.
C17_SameFacetsEveryRun ==
    detect_done => Summary(detected_facets) = first_detected.facets

\* The rows of the crawl, live or gone, that an expression of the group
\* matches which validate_regex_pattern accepts.
RowsOfGroup(config, status) ==
    {i \in DOMAIN crawl_df :
        /\ crawl_df[i].status = status
        /\ \E k \in DOMAIN config.patterns :
              /\ validate_regex_pattern(config.patterns[k])
              /\ Matches(config.patterns[k], crawl_df[i].url)}

FacetsOf(facet_id) ==
    {i \in DOMAIN detected_facets :
        /\ ~detected_facets[i].is_custom
        /\ detected_facets[i].facet_id = facet_id}

\* C18: an expression that does not compile or is empty is skipped and the
\* run goes on: after detect_all a group of the registry has a facet
\* exactly when one of its valid expressions matches a row (and the facet
\* counts those rows), so an invalid expression brings no facet and takes
\* none away; add_custom_facet with an invalid expression returns None
\* and leaves detected_facets as it was.
C18_InvalidPatternSkipped ==
    /\ detect_done =>
          \A g \in DOMAIN registry :
              ~registry[g].dynamic =>
                  LET n200 == Cardinality(RowsOfGroup(registry[g], 200))
                      n404 == Cardinality(RowsOfGroup(registry[g], 404))
                      of == FacetsOf(registry[g].facet_id)
                  IN  IF n200 + n404 > 0
                      THEN /\ Cardinality(of) = 1
                           /\ \A i \in of :
                                 /\ detected_facets[i].url_count_200 = n200
                                 /\ detected_facets[i].url_count_404 = n404
                                 /\ \A k \in DOMAIN detected_facets[i].pattern :
                                       validate_regex_pattern(
                                           detected_facets[i].pattern[k])
                      ELSE of = {}
    /\ (custom.called /\ ~validate_regex_pattern(custom.pattern)) =>
          /\ custom.returned = "None"
          /\ detected_facets = custom.before

\* detect_all has run with a registry that holds invalid expressions, a
\* group with such an expression has its facet, a group with nothing but
\* such expressions has none, and add_custom_facet was then given an
\* expression that does not compile.
C18_Witness ==
    /\ detect_done
    /\ registry = EditedPatterns
    /\ FacetsOf("price_offer") # {}
    /\ FacetsOf("connectivity_5g") = {}
    /\ \E i \in DOMAIN crawl_df :
          Matches(Delimited("/w$", "5g"), crawl_df[i].url)
    /\ custom.called
    /\ custom.pattern = NotCompiling

\* C19: the brand facet of detect_all is built from exactly the brands
\* of the reference list found, as a delimited token, in more than 5 URLs
\* of the crawl, in the order of that number, the greatest first, and cut
\* to the first 30; and the composite expression matches, for each brand
\* in it, the URLs that counted towards the brand's threshold.
C19_BrandFacetFromThreshold ==
    detect_done =>
        LET urls == [i \in DOMAIN crawl_df |-> crawl_df[i].url]
            kept == {b \in {BrandList[x] : x \in DOMAIN BrandList} :
                        CountUrls(urls, b) > BrandMinUrls}
            of == FacetsOf("brand")
        IN  /\ kept # {} => Cardinality(of) = 1
            /\ \A f \in of :
                  LET pattern == detected_facets[f].pattern
                  IN  /\ Len(pattern) = Min2(TopBrands, Cardinality(kept))
                      /\ \A k \in DOMAIN pattern : pattern[k].w \in kept
                      /\ \A j, k \in DOMAIN pattern :
                            j < k => CountUrls(urls, pattern[j].w)
                                        >= CountUrls(urls, pattern[k].w)
                      /\ \A k \in DOMAIN pattern : \A i \in DOMAIN urls :
                            BrandSearch(pattern[k].w, urls[i])
                                => MatchesAny(pattern, urls[i])

\* The number of URLs of the crawl that hold the token.
UrlsWith(segment) ==
    Cardinality({i \in DOMAIN crawl_df :
                    \E t \in DOMAIN CountedTokens(crawl_df[i].url) :
                        CountedTokens(crawl_df[i].url)[t] = segment})

\* C20: detect_unknown_patterns returns at most 20 entries in the order of
\* their counts, the greatest first; each token is alphabetic and longer
\* than 2, its count is the number of URLs that hold it and is above 10,
\* it has at most 3 example URLs, and no unknown token left out is in
\* more URLs than a returned one.
C20_UnknownCountsUrls ==
    unknown_patterns.called =>
        LET result == unknown_patterns.result
            returned == {result[i].segment : i \in DOMAIN result}
            tokens == UNION {{CountedTokens(crawl_df[i].url)[t] :
                                t \in DOMAIN CountedTokens(crawl_df[i].url)} :
                             i \in DOMAIN crawl_df}
        IN  /\ Len(result) <= TopUnknown
            /\ \A i, j \in DOMAIN result :
                  i < j => result[i].count >= result[j].count
            /\ \A i \in DOMAIN result :
                  /\ IsCounted(result[i].segment)
                  /\ result[i].count = UrlsWith(result[i].segment)
                  /\ result[i].count > UnknownMinCount
                  /\ Len(result[i].example_urls) <= UnknownExamples
            /\ \A segment \in tokens \ returned :
                  ~IsKnown(registry, segment) =>
                      \A i \in DOMAIN result :
                          UrlsWith(segment) <= UrlsWith(result[i].segment)

----------------------------------------------------------------------------
(* EmailAuthenticator *)

\* A string is the sequence of its pieces: a space, an "@", a run of
\* lower-case characters, or a run that has upper-case characters in it.

\* ALLOWED_DOMAIN = "pccomponentes.com"
ALLOWED_DOMAIN == <<"pccomponentes.com">>
\* CODE_EXPIRY_MINUTES = 10
CODE_EXPIRY_MINUTES == 10
\* if stored['attempts'] >= 5
MaxAttempts == 5

\* str.lower()
LowerPiece(piece) ==
    IF piece = "A" THEN "a"
    ELSE IF piece = "PCComponentes.com" THEN "pccomponentes.com"
    ELSE piece

lower(s) == [i \in 1..Len(s) |-> LowerPiece(s[i])]

\* str.strip(): the spaces at both ends go, those inside stay.
RECURSIVE lstrip(_)
lstrip(s) == IF s # <<>> /\ Head(s) = " " THEN lstrip(Tail(s)) ELSE s

RECURSIVE rstrip(_)
rstrip(s) ==
    IF s # <<>> /\ s[Len(s)] = " " THEN rstrip(SubSeq(s, 1, Len(s) - 1))
    ELSE s

strip(s) == rstrip(lstrip(s))

\* str.split('@'): the list of the parts between the "@"s.
RECURSIVE split(_)
split(s) ==
    IF \A i \in 1..Len(s) : s[i] # "@" THEN <<s>>
    ELSE LET at == CHOOSE i \in 1..Len(s) :
                      s[i] = "@" /\ \A j \in 1..(i - 1) : s[j] # "@"
         IN  <<SubSeq(s, 1, at - 1)>> \o split(SubSeq(s, at + 1, Len(s)))

\* EmailAuthenticator.validate_email_domain
validate_email_domain(raw) ==
    LET email == lower(strip(raw))
    IN  IF email = <<>> THEN [ok |-> FALSE, message |-> "Email requerido"]
        ELSE IF \A i \in 1..Len(email) : email[i] # "@"
             THEN [ok |-> FALSE, message |-> "Email invalido"]
        ELSE IF split(email)[2] # ALLOWED_DOMAIN
             THEN [ok |-> FALSE, message |-> "Solo se permiten emails"]
        ELSE [ok |-> TRUE, message |-> "Email valido"]

\* EmailAuthenticator._hash_code: SHA-256, which tells any two codes apart.
hash_code(code) == <<"sha256">> \o code

\* del dict[key]
DictDel(dict, key) == [k \in DOMAIN dict \ {key} |-> dict[k]]

\* EmailAuthenticator.send_verification_code, given the code that
\* generate_code draws and whether _send_email gets the mail out.  compared
\* counts the guesses that were compared with the stored hash and differed.
send_verification_code(codes, configured, email, code, t, delivered) ==
    LET valid == validate_email_domain(email)
        stored ==
            DictSet(codes, email,
                    [code_hash |-> hash_code(code),
                     expiry |-> t + CODE_EXPIRY_MINUTES, attempts |-> 0,
                     compared |-> 0])
    IN  IF ~valid.ok
        THEN [ok |-> FALSE, message |-> valid.message, auth_codes |-> codes,
              generated |-> FALSE]
        ELSE IF ~configured
             THEN [ok |-> FALSE, message |-> "Servidor de email no configurado",
                   auth_codes |-> codes, generated |-> FALSE]
        ELSE IF delivered
             THEN [ok |-> TRUE, message |-> "Codigo enviado",
                   auth_codes |-> stored, generated |-> TRUE]
        ELSE [ok |-> FALSE, message |-> "Error enviando email",
              auth_codes |-> stored, generated |-> TRUE]

\* Attempts that are one more before a pending code is given up.
AttemptsExhausted_Late(attempts) == attempts > MaxAttempts

\* stored['attempts'] >= 5
AttemptsExhausted(attempts) == attempts >= MaxAttempts

\* EmailAuthenticator.verify_code
verify_code(codes, raw_email, raw_code, t) ==
    LET email == lower(strip(raw_email))
        code == strip(raw_code)
    IN  IF email \notin DOMAIN codes
        THEN [ok |-> FALSE, message |-> "No hay codigo pendiente",
              auth_codes |-> codes, email |-> email]
        ELSE IF t > codes[email].expiry
             THEN [ok |-> FALSE, message |-> "Codigo expirado",
                   auth_codes |-> DictDel(codes, email), email |-> email]
        ELSE IF AttemptsExhausted(codes[email].attempts)
             THEN [ok |-> FALSE, message |-> "Demasiados intentos fallidos",
                   auth_codes |-> DictDel(codes, email), email |-> email]
        ELSE IF hash_code(code) # codes[email].code_hash
             THEN [ok |-> FALSE, message |-> "Codigo incorrecto",
                   auth_codes |->
                       DictSet(codes, email,
                               [codes[email] EXCEPT
                                   !.attempts = @ + 1, !.compared = @ + 1]),
                   email |-> email]
        ELSE [ok |-> TRUE, message |-> "Autenticacion exitosa",
              auth_codes |-> DictDel(codes, email), email |-> email]

\* Inputs of the authenticator
Emails ==
    {<<"a", "@", "pccomponentes.com">>,
     <<" ", "A", "@", "PCComponentes.com", " ">>,
     <<"a", "@", "evil.com">>,
     <<"a", "@", "pccomponentes.com", "@", "evil.com">>,
     <<" ">>}

Codes == {<<"111111">>, <<"222222">>}

Guesses == Codes

\* The clock moves in steps of more than half the life of a code.
TickMinutes == CODE_EXPIRY_MINUTES \div 2 + 1

\* EmailAuthenticator.__init__ on a fresh session, with or without the SMTP
\* settings; no analyzer is constructed.
LoginInit ==
    /\ auth_codes = <<>>
    /\ authenticated = FALSE
    /\ user_email = None
    /\ auth_timestamp = None
    /\ smtp_configured \in BOOLEAN
    /\ now = 0
    /\ sends = 0
    /\ login_call = NoLoginCall
    /\ ai_results = NoResults
    /\ total_cost = 0
    /\ weights = NoWeights
    /\ breakdown = NoBreakdown
    /\ earlier_total = -1
    /\ facet = NoFacet
    /\ facet_status = NoFacetStatus
    /\ crawl = <<>>
    /\ adobe_urls = <<>>
    /\ has_status_col = TRUE
    /\ merged = <<>>
    /\ no_dist_call = NotCalled
    /\ dilution_call = NotCalled
    /\ analysis = NoAnalysis
    /\ heap = <<>>
    /\ recommendations = <<>>
    /\ given = NothingGiven
    /\ pc = "idle"
    /\ futures = <<>>
    /\ results = <<>>
    /\ batch_result = NoBatch
    /\ verified_recommendations = <<>>
    /\ call = NoCall
    /\ max_workers = MaxWorkersDefault
    /\ progress_callback = NoCallback
    /\ clock = 0
    /\ last_request_at = -1
    /\ previous = NoPrevious
    /\ crawl_df = <<>>
    /\ registry = <<>>
    /\ brand_order = <<>>
    /\ detected_facets = <<>>
    /\ detect_done = FALSE
    /\ first_detected = [set |-> FALSE, facets |-> {}]
    /\ unknown_patterns = [called |-> FALSE, result |-> <<>>]
    /\ custom = [called |-> FALSE]

\* EmailAuthenticator.send_verification_code
SendVerificationCode ==
    \E email \in Emails, code \in Codes, delivered \in BOOLEAN :
        LET r == send_verification_code(auth_codes, smtp_configured, email,
                                        code, now, delivered)
        IN  /\ r.generated => sends < MaxSends
            /\ auth_codes' = r.auth_codes
            /\ sends' = (IF r.generated THEN sends + 1 ELSE sends)
            /\ login_call' = [op |-> "send", email |-> email,
                              code |-> (IF r.generated THEN code ELSE <<>>),
                              ok |-> r.ok, message |-> r.message]
            /\ UNCHANGED <<authenticated, user_email, auth_timestamp,
                           smtp_configured, now>>
            /\ UNCHANGED <<authVars, scoringVars, verifyVars, detectorVars,
                           aiVars>>

\* EmailAuthenticator.verify_code
VerifyCode ==
    \E email \in Emails, code \in Guesses :
        LET r == verify_code(auth_codes, email, code, now)
        IN  /\ auth_codes' = r.auth_codes
            /\ authenticated' = (IF r.ok THEN TRUE ELSE authenticated)
            /\ user_email' = (IF r.ok THEN r.email ELSE user_email)
            /\ auth_timestamp' = (IF r.ok THEN now ELSE auth_timestamp)
            /\ login_call' = [op |-> "verify", email |-> email,
                              code |-> code, ok |-> r.ok,
                              message |-> r.message]
            /\ UNCHANGED <<smtp_configured, now, sends>>
            /\ UNCHANGED <<authVars, scoringVars, verifyVars, detectorVars,
                           aiVars>>

\* EmailAuthenticator.logout
Logout ==
    /\ authenticated' = FALSE
    /\ user_email' = None
    /\ auth_timestamp' = None
    /\ login_call' = [op |-> "logout", email |-> <<>>, code |-> <<>>,
                      ok |-> TRUE, message |-> ""]
    /\ UNCHANGED <<auth_codes, smtp_configured, now, sends>>
    /\ UNCHANGED <<authVars, scoringVars, verifyVars, detectorVars, aiVars>>

\* Time passes between two calls.
TimePasses ==
    /\ now + TickMinutes <= MaxTicks * TickMinutes
    /\ now' = now + TickMinutes
    /\ UNCHANGED <<auth_codes, authenticated, user_email, auth_timestamp,
                   smtp_configured, sends, login_call>>
    /\ UNCHANGED <<authVars, scoringVars, verifyVars, detectorVars, aiVars>>

LoginNext == SendVerificationCode \/ VerifyCode \/ Logout \/ TimePasses

----------------------------------------------------------------------------
(* Claims about the EmailAuthenticator *)

\* The domain of an address: what follows its last "@".
DomainOf(email) == split(email)[Len(split(email))]

\* A step that is one call of verify_code, of send_verification_code.
VerifyStep == login_call'.op = "verify" /\ now' = now
SendStep == login_call'.op = "send" /\ now' = now

\* The key under which verify_code looks the address of the call up.
KeyOfCall == lower(strip(login_call'.email))

\* C25: the session becomes authenticated only by a verify_code(email,
\* code) whose code is the one issued last for that email, not expired and
\* with fewer than 5 failed attempts; the call removes the pending code;
\* and the authenticated user_email is an address of the allowed domain.
C25_AuthenticatedOnlyByIssuedCode ==
    /\ [][(~authenticated /\ authenticated') =>
            /\ VerifyStep
            /\ KeyOfCall \in DOMAIN auth_codes
            /\ hash_code(strip(login_call'.code))
                  = auth_codes[KeyOfCall].code_hash
            /\ now <= auth_codes[KeyOfCall].expiry
            /\ auth_codes[KeyOfCall].attempts < MaxAttempts
            /\ KeyOfCall \notin DOMAIN auth_codes'
            /\ user_email' = KeyOfCall]_vars
    /\ [](authenticated => DomainOf(user_email) = ALLOWED_DOMAIN)

\* C26: no issued code has more than 5 incorrect guesses compared with it:
\* an incorrect guess adds one to its attempts, a code with 5 attempts is
\* deleted by the next verify_code for its email, which is rejected
\* whatever its code, and a newly issued code starts from no attempt.
C26_AtMostFiveGuesses ==
    /\ [](\A k \in DOMAIN auth_codes :
             /\ auth_codes[k].compared <= MaxAttempts
             /\ auth_codes[k].attempts = auth_codes[k].compared)
    /\ [][/\ (/\ VerifyStep
              /\ KeyOfCall \in DOMAIN auth_codes
              /\ now <= auth_codes[KeyOfCall].expiry
              /\ auth_codes[KeyOfCall].attempts < MaxAttempts
              /\ hash_code(strip(login_call'.code))
                    # auth_codes[KeyOfCall].code_hash)
             => /\ ~login_call'.ok
                /\ KeyOfCall \in DOMAIN auth_codes'
                /\ auth_codes'[KeyOfCall].attempts
                      = auth_codes[KeyOfCall].attempts + 1
                /\ auth_codes'[KeyOfCall].code_hash
                      = auth_codes[KeyOfCall].code_hash
                /\ UNCHANGED <<authenticated, user_email>>
          /\ (/\ VerifyStep
              /\ KeyOfCall \in DOMAIN auth_codes
              /\ auth_codes[KeyOfCall].attempts >= MaxAttempts)
             => /\ ~login_call'.ok
                /\ KeyOfCall \notin DOMAIN auth_codes'
                /\ UNCHANGED <<authenticated, user_email>>
          /\ (SendStep /\ login_call'.code # <<>>)
             => /\ login_call'.email \in DOMAIN auth_codes'
                /\ auth_codes'[login_call'.email].attempts = 0
                /\ auth_codes'[login_call'.email].compared = 0]_vars

\* A verify_code rejected because its code had used up its attempts, with
\* nothing pending for the email afterwards.
C26_Witness ==
    /\ login_call.op = "verify"
    /\ login_call.message = "Demasiados intentos fallidos"
    /\ lower(strip(login_call.email)) \notin DOMAIN auth_codes
    /\ ~authenticated
    /\ sends = 1

\* C27: after send_verification_code(email) has succeeded, the next call
\* verify_code(email, issued code), made before the code expires, succeeds
\* and authenticates the session, also for an email typed with upper-case
\* letters or with spaces around it.
C27_IssuedCodeVerifies ==
    [][(/\ login_call.op = "send" /\ login_call.ok
        /\ VerifyStep
        /\ login_call'.email = login_call.email
        /\ login_call'.code = login_call.code
        /\ now <= auth_codes[login_call.email].expiry)
           => login_call'.ok /\ authenticated']_vars

\* C28: a send_verification_code that returns failure leaves the pending
\* codes as they were.
C28_FailedSendKeepsCodes ==
    [][(SendStep /\ ~login_call'.ok) => auth_codes' = auth_codes]_vars

----------------------------------------------------------------------------
(* DualAIClient *)

\* A reply is the sequence of its characters; "A'" and "a'" stand for the
\* letter A with an acute accent, upper and lower case.

\* str.upper()
UpperChar(c) ==
    CASE c = "a" -> "A" [] c = "a'" -> "A'" [] c = "c" -> "C"
      [] c = "d" -> "D" [] c = "i" -> "I" [] c = "l" -> "L"
      [] c = "n" -> "N" [] c = "o" -> "O" [] c = "p" -> "P"
      [] c = "r" -> "R" [] c = "t" -> "T" [] c = "v" -> "V"
      [] OTHER -> c

upper(s) == [i \in 1..Len(s) |-> UpperChar(s[i])]

\* word in text
IsIn(word, text) ==
    \E i \in 1..(Len(text) - Len(word) + 1) :
        SubSeq(text, i, i + Len(word) - 1) = word

VALIDO == <<"V", "A'", "L", "I", "D", "O">>
VALID == <<"V", "A", "L", "I", "D">>
PARCIAL == <<"P", "A", "R", "C", "I", "A", "L">>
PARTIAL == <<"P", "A", "R", "T", "I", "A", "L">>
INVALIDO == <<"I", "N">> \o VALIDO
INVALID == <<"I", "N">> \o VALID

\* The part of analyze_with_validation that determines the consensus
\* (lines 363-380), given the content of the primary and of the validation
\* response, None for a call that raised.
Consensus(primary, validation) ==
    IF primary # None /\ validation # None
    THEN LET val_content == upper(validation.content)
         IN  IF IsIn(VALIDO, val_content) \/ IsIn(VALID, val_content)
             THEN [consensus |-> TRUE, confidence |-> "HIGH",
                   merged_response |->
                       [primary |-> primary.content, note |-> None]]
             ELSE IF IsIn(PARCIAL, val_content)
                     \/ IsIn(PARTIAL, val_content)
                  THEN [consensus |-> TRUE, confidence |-> "MEDIUM",
                        merged_response |->
                            [primary |-> primary.content,
                             note |-> validation.content]]
             ELSE [consensus |-> FALSE, confidence |-> "LOW",
                   merged_response |->
                       [conflict |-> primary.content,
                        validation |-> validation.content]]
    ELSE IF primary # None
         THEN [consensus |-> FALSE, confidence |-> "MEDIUM",
               merged_response |->
                   [primary |-> primary.content, note |-> None]]
    ELSE [consensus |-> FALSE, confidence |-> "LOW",
          merged_response |-> None]

\* DualAIClient.analyze_with_validation, given what the two model calls
\* return: None for a call that raised, else the content and the cost
\* estimate of the response.
analyze_with_validation(primary, validation) ==
    LET c == Consensus(primary, validation)
    IN  [returned |-> TRUE, primary |-> primary, validation |-> validation,
         consensus |-> c.consensus, confidence |-> c.confidence,
         merged_response |-> c.merged_response,
         cost |-> (IF primary # None THEN primary.cost ELSE 0)
                  + (IF validation # None THEN validation.cost ELSE 0),
         errors |->
             (IF primary = None THEN <<"Error en modelo primario">>
              ELSE <<>>)
             \o (IF validation = None THEN <<"Error en validacion">>
                 ELSE <<>>)]

\* What the models answer: the primary model an analysis, the validating
\* model a verdict, in the case it likes, or something else.
Response(content) == [content |-> content, cost |-> 1]

PrimaryContents == {<<"a", "n", "a", "l", "i", "s", "i", "s">>}

ValidationContents ==
    {VALIDO, INVALIDO, PARCIAL, VALID, INVALID, PARTIAL,
     <<"v", "a'", "l", "i", "d", "o">>,
     <<"I", "n", "v", "a'", "l", "i", "d", "o">>,
     <<"P", "a", "r", "c", "i", "a", "l">>,
     <<"N", "O">>}

\* DualAIClient.__init__; no analyzer and no authenticator is constructed.
AIInit ==
    /\ ai_results = NoResults
    /\ total_cost = 0
    /\ auth_codes = <<>>
    /\ authenticated = FALSE
    /\ user_email = None
    /\ auth_timestamp = None
    /\ smtp_configured = FALSE
    /\ now = 0
    /\ sends = 0
    /\ login_call = NoLoginCall
    /\ weights = NoWeights
    /\ breakdown = NoBreakdown
    /\ earlier_total = -1
    /\ facet = NoFacet
    /\ facet_status = NoFacetStatus
    /\ crawl = <<>>
    /\ adobe_urls = <<>>
    /\ has_status_col = TRUE
    /\ merged = <<>>
    /\ no_dist_call = NotCalled
    /\ dilution_call = NotCalled
    /\ analysis = NoAnalysis
    /\ heap = <<>>
    /\ recommendations = <<>>
    /\ given = NothingGiven
    /\ pc = "idle"
    /\ futures = <<>>
    /\ results = <<>>
    /\ batch_result = NoBatch
    /\ verified_recommendations = <<>>
    /\ call = NoCall
    /\ max_workers = MaxWorkersDefault
    /\ progress_callback = NoCallback
    /\ clock = 0
    /\ last_request_at = -1
    /\ previous = NoPrevious
    /\ crawl_df = <<>>
    /\ registry = <<>>
    /\ brand_order = <<>>
    /\ detected_facets = <<>>
    /\ detect_done = FALSE
    /\ first_detected = [set |-> FALSE, facets |-> {}]
    /\ unknown_patterns = [called |-> FALSE, result |-> <<>>]
    /\ custom = [called |-> FALSE]

\* DualAIClient.analyze_with_validation
AnalyzeWithValidation ==
    \E primary \in {Response(c) : c \in PrimaryContents} \cup {None},
       validation \in {Response(c) : c \in ValidationContents} \cup {None} :
        LET r == analyze_with_validation(primary, validation)
        IN  /\ total_cost + r.cost <= MaxCost
            /\ ai_results' = r
            /\ total_cost' = total_cost + r.cost
            /\ UNCHANGED <<authVars, scoringVars, verifyVars, detectorVars,
                           loginVars>>

\* DualAIClient.reset_session_cost
ResetSessionCost ==
    /\ total_cost' = 0
    /\ UNCHANGED ai_results
    /\ UNCHANGED <<authVars, scoringVars, verifyVars, detectorVars,
                   loginVars>>

AINext == AnalyzeWithValidation \/ ResetSessionCost

----------------------------------------------------------------------------
(* Claims about the DualAIClient *)

\* The verdict of a validation reply: the word the reply is, in any case.
VerdictIs(words) ==
    \E w \in words : upper(ai_results.validation.content) = w

BothSucceeded ==
    ai_results.returned /\ ai_results.primary # None
        /\ ai_results.validation # None

\* C29: when both model calls succeed, a reply that is the verdict
\* INVALIDO or INVALID gives consensus False and confidence LOW; consensus
\* True comes with HIGH only for the verdict VALIDO or VALID and with
\* MEDIUM only for the verdict PARCIAL or PARTIAL.
C29_InvalidVerdictIsNoConsensus ==
    BothSucceeded =>
        /\ VerdictIs({INVALIDO, INVALID}) =>
              ~ai_results.consensus /\ ai_results.confidence = "LOW"
        /\ (ai_results.consensus /\ ai_results.confidence = "HIGH") =>
              VerdictIs({VALIDO, VALID})
        /\ (ai_results.consensus /\ ai_results.confidence = "MEDIUM") =>
              VerdictIs({PARCIAL, PARTIAL})

----------------------------------------------------------------------------
(* Specifications *)

SpecAuthority == AuthorityInit /\ [][AuthorityNext]_vars

SpecScoring == ScoringInit /\ [][ScoringNext]_vars

SpecVerify == VerifyInit /\ [][VerifyNext]_vars

SpecDetector == DetectorInit /\ [][DetectorNext]_vars

SpecFacets == FacetsInit /\ [][FacetsNext]_vars

SpecLogin == LoginInit /\ [][LoginNext]_vars

SpecAI == AIInit /\ [][AINext]_vars

\* Every request ends, every worker and the collecting loop go on.
SpecVerifyFair ==
    /\ VerifyInit
    /\ [][VerifyNext]_vars
    /\ WF_vars(ProbeStarts)
    /\ WF_vars(RequestRetried)
    /\ WF_vars(ProbeCompletes)
    /\ WF_vars(CollectResult)
    /\ WF_vars(ExceptionLeaves)
    /\ WF_vars(VerifyBatchReturns)
    /\ WF_vars(VerifyRecommendationsFinish)

====
